---------------------------- MODULE Spec2Model ----------------------------
(***************************************************************************)
(* State-machine model of the realtime audio core of AI-scratchpad:        *)
(*   - the text-to-speech read-aloud pipeline and its playback scheduler   *)
(*     (ChatInterface component, src/unnamed/part_000);                    *)
(*   - the realtime voice session, its playback scheduler and transcript   *)
(*     aggregation (useLiveAudio hook, src/hooks/useLiveAudio.ts).         *)
(*                                                                         *)
(* JavaScript runs every handler to its next awaited external call without *)
(* preemption, so one action is one handler segment between two awaits     *)
(* (and the microtask continuations that follow the resumed await).        *)
(***************************************************************************)
EXTENDS Integers, Sequences, FiniteSets, TLC

(***************************************************************************)
(* Bounds of the model.                                                    *)
(***************************************************************************)
MaxRuns == 2
MaxChunks == 2
MaxDuration == 1
MaxClock == 1
MaxSentence == 1
MaxSessions == 2
MaxStops == 2
MaxText == 2
MaxMessages == 1
MaxInbound == 3
MaxCalls == 2
MaxChunkText == 5
MaxLength == 3
MaxContext == 5
MaxFrame == 2
Grid == 10

\* activeSentenceIndex === null
NoSentence == 0 - 1

\* The window has no AudioContext constructor: getTtsAudioContext returns
\* null, there is no TTS context and no currentTime.
NoContext == 0 - 1

Max(a, b) == IF a >= b THEN a ELSE b

VARIABLES
    mode,                 \* AppMode: the tab the user works in
    \* ---- ChatInterface: read-aloud (TTS) ----
    ttsStatus,            \* 'idle' | 'fetching' | 'playing'
    activeSentenceIndex,  \* resume index, NoSentence when null
    isCancelledRef,       \* cancellation flag shared by every run
    nextTtsStartTimeRef,  \* scheduler clock offset
    ttsAudioSourcesRef,   \* active set: started sources not yet ended/stopped
    ttsClock,             \* ttsAudioContext.currentTime, or NoContext
    ttsRuns,              \* one record per handleReadAloud invocation that reached its loop
    ttsStopped,           \* sources halted by stop() whose 'ended' event is still to be delivered
    ttsSeq,               \* observation: number of source.start calls so far
    ttsLast,              \* observation: <<run, chunk>> of the latest source.start call
    ttsAlerts,            \* observation: number of alert() notices
    ttsStopRan,           \* observation: stopTtsPlayback ran in the latest step
    \* ---- useLiveAudio: realtime session ----
    live,                 \* record of the hook's state and refs, see LiveInit
    sessionEnded,         \* ChatInterface state: the user asked to end the session
    \* ---- chunkText ----
    chunker,              \* a call of chunkText: its arguments and its result
    \* ---- ChatInterface: the text to read ----
    reader,               \* contextText, the sentence clicked, the latest resolved text
    \* ---- useLiveAudio: PCM encoding ----
    encoder               \* a capture frame and the 16-bit values it is encoded to

ttsVars == <<ttsStatus, activeSentenceIndex, isCancelledRef, nextTtsStartTimeRef,
             ttsAudioSourcesRef, ttsClock, ttsRuns, ttsStopped, ttsSeq,
             ttsLast, ttsAlerts, ttsStopRan>>

liveVars == <<live, sessionEnded>>

callVars == <<chunker, reader, encoder>>

vars == <<mode, ttsVars, liveVars, callVars>>

-----------------------------------------------------------------------------
(***************************************************************************)
(* Read-aloud pipeline.  The handlers are written as functions on a record *)
(* of the component's refs and state, so that a handler which calls        *)
(* another one (the loop calling stopTtsPlayback) is a composition.        *)
(***************************************************************************)
AppModes == {"TEXT_CHAT", "LIVE_CONVERSATION"}

RunIds == 1..MaxRuns

\* The locals of a handleReadAloud invocation, and observations of it:
\* cancelSeen (stopTtsPlayback ran while it was in flight), failure (what set
\* hasFailed: "synthesis", "decode" or "none"); of a returned invocation
\* wasCancelled and alerted (its alert() calls) are kept.
NoRun == [pc |-> "none", chunks |-> 0, cursor |-> 0, hasFailed |-> FALSE,
          firstChunkProcessed |-> FALSE, cancelSeen |-> FALSE,
          failure |-> "none", wasCancelled |-> FALSE, alerted |-> 0]

TtsRefs ==
    [ttsStatus |-> ttsStatus, activeSentenceIndex |-> activeSentenceIndex,
     isCancelledRef |-> isCancelledRef, nextTtsStartTimeRef |-> nextTtsStartTimeRef,
     ttsAudioSourcesRef |-> ttsAudioSourcesRef, ttsRuns |-> ttsRuns,
     ttsStopped |-> ttsStopped, ttsSeq |-> ttsSeq, ttsLast |-> ttsLast,
     ttsAlerts |-> ttsAlerts, ttsStopRan |-> FALSE]

TtsCommit(t) ==
    /\ ttsStatus' = t.ttsStatus
    /\ activeSentenceIndex' = t.activeSentenceIndex
    /\ isCancelledRef' = t.isCancelledRef
    /\ nextTtsStartTimeRef' = t.nextTtsStartTimeRef
    /\ ttsAudioSourcesRef' = t.ttsAudioSourcesRef
    /\ ttsRuns' = t.ttsRuns
    /\ ttsStopped' = t.ttsStopped
    /\ ttsSeq' = t.ttsSeq
    /\ ttsLast' = t.ttsLast
    /\ ttsAlerts' = t.ttsAlerts
    /\ ttsStopRan' = t.ttsStopRan

\* A run is in flight while it is suspended at one of its two awaits.
InFlight(run) == run.pc \in {"fetch", "decode"}

\* A variant that keeps the resume index.
stopTtsPlaybackKeepsIndex(t) ==
    [t EXCEPT !.isCancelledRef = TRUE,
              !.ttsStopRan = TRUE,
              !.ttsStopped = t.ttsStopped + Cardinality(t.ttsAudioSourcesRef),
              !.ttsAudioSourcesRef = {},
              !.nextTtsStartTimeRef = 0,
              !.ttsStatus = "idle",
              !.ttsRuns = [r \in RunIds |->
                              IF InFlight(t.ttsRuns[r])
                              THEN [t.ttsRuns[r] EXCEPT !.cancelSeen = TRUE]
                              ELSE t.ttsRuns[r]]]

\* stopTtsPlayback: set the flag, stop and clear every source, reset the offset,
\* status idle, clear the resume index.  Every stopped source still owes its
\* 'ended' event.  cancelSeen records, for each run in flight, that cancel ran.
stopTtsPlayback(t) ==
    [t EXCEPT !.isCancelledRef = TRUE,
              !.ttsStopRan = TRUE,
              !.ttsStopped = t.ttsStopped + Cardinality(t.ttsAudioSourcesRef),
              !.ttsAudioSourcesRef = {},
              !.nextTtsStartTimeRef = 0,
              !.ttsStatus = "idle",
              !.activeSentenceIndex = NoSentence,
              !.ttsRuns = [r \in RunIds |->
                              IF InFlight(t.ttsRuns[r])
                              THEN [t.ttsRuns[r] EXCEPT !.cancelSeen = TRUE]
                              ELSE t.ttsRuns[r]]]

\* queueAndPlayAudio after its decode has returned: schedule at
\* max(offset, currentTime), start, advance the offset, add to the active set.
queueAndPlayAudio(t, r, duration) ==
    LET scheduledTime == Max(t.nextTtsStartTimeRef, ttsClock)
        source == [id |-> t.ttsSeq + 1, start |-> scheduledTime,
                   duration |-> duration, run |-> r, chunk |-> t.ttsRuns[r].cursor]
    IN  [t EXCEPT !.nextTtsStartTimeRef = scheduledTime + duration,
                  !.ttsAudioSourcesRef = t.ttsAudioSourcesRef \cup {source},
                  !.ttsSeq = t.ttsSeq + 1,
                  !.ttsLast = <<r, t.ttsRuns[r].cursor>>]

\* source.onended: remove the source; signal idle when the set is empty and
\* no cancellation is pending.
ttsOnEnded(t, source) ==
    LET left == t.ttsAudioSourcesRef \ source
    IN  IF left = {} /\ ~t.isCancelledRef
        THEN [t EXCEPT !.ttsAudioSourcesRef = left, !.ttsStatus = "idle",
                       !.activeSentenceIndex = NoSentence]
        ELSE [t EXCEPT !.ttsAudioSourcesRef = left]

\* A variant that alerts on cancellation as well.
readAloudEndAlertsOnCancel(t, r) ==
    LET run == t.ttsRuns[r]
        noisy == run.hasFailed \/ t.isCancelledRef
        u == [t EXCEPT !.ttsRuns[r] =
                 [NoRun EXCEPT !.pc = "done",
                               !.failure = run.failure,
                               !.wasCancelled = run.cancelSeen,
                               !.alerted = IF noisy THEN 1 ELSE 0]]
    IN  IF noisy
        THEN stopTtsPlayback([u EXCEPT !.ttsAlerts = @ + 1])
        ELSE u

\* A variant that alerts on failure and stops nothing.
readAloudEndNoStop(t, r) ==
    LET run == t.ttsRuns[r]
    IN  [t EXCEPT !.ttsRuns[r] =
                      [NoRun EXCEPT !.pc = "done",
                                    !.failure = run.failure,
                                    !.wasCancelled = run.cancelSeen,
                                    !.alerted = IF run.hasFailed THEN 1 ELSE 0],
                  !.ttsAlerts = IF run.hasFailed THEN @ + 1 ELSE @]

\* handleReadAloud after its loop: on failure or cancellation alert (failure
\* only) and force a full stop.  The locals of the returned invocation are
\* dropped.
readAloudEnd(t, r) ==
    LET run == t.ttsRuns[r]
        u == [t EXCEPT !.ttsRuns[r] =
                 [NoRun EXCEPT !.pc = "done",
                               !.failure = run.failure,
                               !.wasCancelled = run.cancelSeen,
                               !.alerted = IF run.hasFailed THEN 1 ELSE 0]]
    IN  IF run.hasFailed \/ t.isCancelledRef
        THEN stopTtsPlayback([u EXCEPT !.ttsAlerts =
                                 IF run.hasFailed THEN @ + 1 ELSE @])
        ELSE u

\* handleReadAloud's loop head for chunk k: leave the loop when the chunks are
\* exhausted or the flag is set, else request synthesis of chunk k.
readAloudLoop(t, r, k) ==
    IF k > t.ttsRuns[r].chunks \/ t.isCancelledRef
    THEN readAloudEnd(t, r)
    ELSE [t EXCEPT !.ttsRuns[r].pc = "fetch", !.ttsRuns[r].cursor = k]

\* The next unused run id, MaxRuns + 1 when the bound is reached.
NextRun == Cardinality({r \in RunIds : ttsRuns[r].pc # "none"}) + 1

\* decodeAudioData either returns a buffer or throws (DecodeError).
DecodeOutcomes == {"buffer", "error"}

\* Click on the read-aloud button; n is the number of chunks chunkText returns
\* for the resolved text.  The text the component resolves always holds a
\* character that is not white space (the context is submitted only when its
\* trimmed text is non-empty, a selection is used only when its trimmed text
\* is non-empty, a resume index points into the context), so n >= 1 for every
\* click the page allows.
HandleReadAloud(n) ==
    /\ mode = "TEXT_CHAT"
    /\ IF ttsStatus \in {"fetching", "playing"}
       THEN TtsCommit(stopTtsPlayback(TtsRefs))
       ELSE LET t1 == [TtsRefs EXCEPT !.isCancelledRef = FALSE] IN
            IF n = 0
            THEN TtsCommit([t1 EXCEPT !.ttsStatus = "idle"])
            ELSE /\ NextRun <= MaxRuns
                 /\ LET r  == NextRun
                        t2 == [t1 EXCEPT !.ttsStatus = "fetching",
                                         !.nextTtsStartTimeRef = 0,
                                         !.ttsRuns[r] = [NoRun EXCEPT !.pc = "loop",
                                                                      !.chunks = n]]
                    IN TtsCommit(readAloudLoop(t2, r, 1))
    /\ UNCHANGED <<mode, ttsClock>>

\* getTextToSpeech returns for run r: base64 audio (audioData = TRUE) or null.
\* With audio, queueAndPlayAudio is called: it waits for the decode, or, when
\* getTtsAudioContext returns null, returns at once and the loop goes on.
SynthReturns(r, audioData) ==
    /\ ttsRuns[r].pc = "fetch"
    /\ LET t == TtsRefs
           k == ttsRuns[r].cursor
           first == [t EXCEPT
                    !.ttsStatus = IF t.ttsRuns[r].firstChunkProcessed THEN @ ELSE "playing",
                    !.ttsRuns[r].firstChunkProcessed = TRUE]
       IN  IF audioData /\ ~isCancelledRef
           THEN IF ttsClock = NoContext
                THEN TtsCommit(readAloudLoop(first, r, k + 1))
                ELSE TtsCommit([first EXCEPT !.ttsRuns[r].pc = "decode"])
           ELSE IF ~audioData
           THEN TtsCommit(readAloudEnd([t EXCEPT !.ttsRuns[r].hasFailed = TRUE,
                                                 !.ttsRuns[r].failure = "synthesis"], r))
           ELSE TtsCommit(readAloudLoop(t, r, k + 1))
    /\ UNCHANGED <<mode, ttsClock>>

\* decodeAudioData returns inside queueAndPlayAudio for run r.
DecodeReturns(r, duration, outcome) ==
    /\ ttsRuns[r].pc = "decode"
    /\ LET t == TtsRefs
           k == ttsRuns[r].cursor
       IN  IF outcome = "buffer"
           THEN TtsCommit(readAloudLoop(queueAndPlayAudio(t, r, duration), r, k + 1))
           ELSE TtsCommit(readAloudEnd([t EXCEPT !.ttsRuns[r].hasFailed = TRUE,
                                                 !.ttsRuns[r].failure = "decode"], r))
    /\ UNCHANGED <<mode, ttsClock>>

\* A source played to its end.
TtsSourceEnded(s) ==
    /\ s \in ttsAudioSourcesRef
    /\ ttsClock >= s.start + s.duration
    /\ TtsCommit(ttsOnEnded(TtsRefs, {s}))
    /\ UNCHANGED <<mode, ttsClock>>

\* The 'ended' event of a source that stop() halted: it is no longer in the set.
TtsStoppedSourceEnded ==
    /\ ttsStopped > 0
    /\ TtsCommit(ttsOnEnded([TtsRefs EXCEPT !.ttsStopped = @ - 1], {}))
    /\ UNCHANGED <<mode, ttsClock>>

HandleNewContext ==
    /\ mode = "TEXT_CHAT"
    /\ TtsCommit(stopTtsPlayback(TtsRefs))
    /\ UNCHANGED <<mode, ttsClock>>

HandleSentenceClick(i) ==
    /\ mode = "TEXT_CHAT"
    /\ IF ttsStatus # "idle"
       THEN TtsCommit(stopTtsPlayback(TtsRefs))
       ELSE TtsCommit([TtsRefs EXCEPT !.activeSentenceIndex =
                          IF @ = i THEN NoSentence ELSE i])
    /\ UNCHANGED <<mode, ttsClock>>

TtsClockTick ==
    /\ ttsClock # NoContext
    /\ ttsClock < MaxClock
    /\ ttsClock' = ttsClock + 1
    /\ ttsStopRan' = FALSE
    /\ UNCHANGED <<mode, ttsStatus, activeSentenceIndex, isCancelledRef,
                   nextTtsStartTimeRef, ttsAudioSourcesRef, ttsRuns, ttsStopped,
                   ttsSeq, ttsLast, ttsAlerts>>

-----------------------------------------------------------------------------
(***************************************************************************)
(* Realtime session (useLiveAudio).  The hook's state and refs are the     *)
(* fields of the record live; a handler is a function on that record.      *)
(*   chan[s]    channel of the s-th startSession call: "none" before       *)
(*              connect, "connecting" while the session promise is         *)
(*              pending, "open" after onopen, "closing" once closed or     *)
(*              failed with onclose still to be delivered, "closed" after  *)
(*   startPc[s] the s-th startSession call: "none", "mic" while suspended  *)
(*              at getUserMedia, "done", "failed" once its catch block ran *)
(*   stops      number of stopSession calls suspended at each await        *)
(*   heldStreams microphone streams acquired whose tracks are not stopped  *)
(*   effectConnected  the isConnected value the cleanup effect captured    *)
(*   messages   number of inbound messages handled                         *)
(*   decoding   playAudio calls suspended at decodeAudioData                *)
(*   outputClock  currentTime of the output context                        *)
(* Observations, no state of the program:                                  *)
(*   audioSeq   number of sources started so far                           *)
(*   stopReturned  number of stopSession calls that returned in the latest *)
(*              step                                                       *)
(*   stopRow    see RowAfterCall                                           *)
(*   toolLog    the scratchpad callback invocations and the tool responses *)
(*              sent in the latest step, in order                          *)
(*   pendingAcks  tool responses waiting for their session promise         *)
(*   frameLog   the sendRealtimeInput calls for capture frames made in the *)
(*              latest step, in order: the channel, whether it was open,   *)
(*              whether the call returned (ok) or threw                    *)
(*   pendingFrames  capture frames waiting for their session promise       *)
(*   stopAllRan   stopAllPlayback ran in the latest step                   *)
(*   teardownLog  the releases stopSession made in the latest step, in     *)
(*              order: "stopTracks", "disconnectProcessor",                *)
(*              "disconnectSource"                                         *)
(*   lastInterrupt  number of the latest message whose interruption signal *)
(*              was handled, 0 when none was                               *)
(*                                                                         *)
(* AudioContext.close() is asynchronous: the context's state attribute is  *)
(* 'running' until the close completes ("closing" below).  A second        *)
(* close() on a context whose close is pending rejects or resolves once    *)
(* the context is closed, depending on the browser; stopSession catches    *)
(* the rejection, so in both cases its await resumes, at the latest when   *)
(* the context is closed ("inputAgain", "outputAgain").                    *)
(***************************************************************************)
SessionIds == 1..MaxSessions

\* Plain text is a sequence of characters; " " is white space.
Chars == {"a", " "}
Emp == <<>>

\* The awaits of stopSession: of session promise id, of the close of
\* context id, of a further close of context id while its close is pending.
StopPoints ==
    [at : {"session", "input", "inputAgain", "output", "outputAgain"},
     id : SessionIds]

StopsInFlight(l) ==
    LET RECURSIVE Sum(_)
        Sum(S) == IF S = {} THEN 0
                  ELSE LET p == CHOOSE x \in S : TRUE IN l.stops[p] + Sum(S \ {p})
    IN  Sum(StopPoints)

Suspend(l, point) == [l EXCEPT !.stops[point] = @ + 1]

\* White space of String.prototype.trim and of \s: the space and the line
\* break stand for all of it.
WhiteSpace == {" ", "\n"}

\* String.prototype.trim on a sequence of characters.
RECURSIVE TrimStart(_)
TrimStart(t) ==
    IF t # Emp /\ Head(t) \in WhiteSpace THEN TrimStart(Tail(t)) ELSE t
RECURSIVE TrimEnd(_)
TrimEnd(t) ==
    IF t # Emp /\ t[Len(t)] \in WhiteSpace
    THEN TrimEnd(SubSeq(t, 1, Len(t) - 1)) ELSE t
Trim(t) == TrimEnd(TrimStart(t))

\* A variant that gives every Transcript the same id.
TranscriptIdFixed(n) == <<"t_", 1>>

\* Transcript id `t_${n}`.
TranscriptId(n) == <<"t_", n>>

\* A variant that leaves the offset as it is.
stopAllPlaybackKeepsOffset(l) ==
    [l EXCEPT !.audioSourcesRef = {}, !.stopAllRan = TRUE]

\* stopAllPlayback: stop every source, clear the set, reset the offset.
stopAllPlayback(l) ==
    [l EXCEPT !.audioSourcesRef = {}, !.nextStartTimeRef = 0, !.stopAllRan = TRUE]

\* A variant that commits the model's text before the user's.
commitFinalUtterancesModelFirst(l) ==
    LET n1 == IF l.modelUtteranceRef # Emp THEN l.transcriptIdCounter + 1
              ELSE l.transcriptIdCounter
        n2 == IF l.userUtteranceRef # Emp THEN n1 + 1 ELSE n1
        m  == IF l.modelUtteranceRef # Emp
              THEN <<[id |-> TranscriptId(n1), text |-> l.modelUtteranceRef,
                      source |-> "model"]>>
              ELSE <<>>
        u  == IF l.userUtteranceRef # Emp
              THEN <<[id |-> TranscriptId(n2), text |-> l.userUtteranceRef,
                      source |-> "user"]>>
              ELSE <<>>
    IN  [l EXCEPT !.transcriptIdCounter = n2,
                  !.transcriptHistory = l.transcriptHistory \o m \o u,
                  !.userUtteranceRef = Emp,
                  !.modelUtteranceRef = Emp]

\* commitFinalUtterances: one Transcript per non-empty buffer (not trimmed),
\* user first, then clear both buffers.
commitFinalUtterances(l) ==
    LET n1 == IF l.userUtteranceRef # Emp THEN l.transcriptIdCounter + 1
              ELSE l.transcriptIdCounter
        n2 == IF l.modelUtteranceRef # Emp THEN n1 + 1 ELSE n1
        u  == IF l.userUtteranceRef # Emp
              THEN <<[id |-> TranscriptId(n1), text |-> l.userUtteranceRef,
                      source |-> "user"]>>
              ELSE <<>>
        m  == IF l.modelUtteranceRef # Emp
              THEN <<[id |-> TranscriptId(n2), text |-> l.modelUtteranceRef,
                      source |-> "model"]>>
              ELSE <<>>
    IN  [l EXCEPT !.transcriptIdCounter = n2,
                  !.transcriptHistory = l.transcriptHistory \o u \o m,
                  !.userUtteranceRef = Emp,
                  !.modelUtteranceRef = Emp]

\* Observation stopRow: "none" when nothing but teardown has to be accounted
\* for, "called" once stopSession was called with no start, open, message or
\* frame since, "returned" once such a call returned, "repeated" once a
\* second one returned, "dirty" while a call is in flight that overlapped a
\* start, an open, a message or a frame.
RowAfterCall(l) == IF l.stopRow = "none" THEN "called" ELSE l.stopRow
RowAfterReturn(l) ==
    IF l.stopRow = "called" THEN "returned"
    ELSE IF l.stopRow = "returned" THEN "repeated"
    ELSE IF l.stopRow = "dirty" /\ StopsInFlight(l) = 0 THEN "none"
    ELSE l.stopRow

\* A variant that leaves the loudness as it is.
stopAfterOutputKeepsLevel(l) ==
    commitFinalUtterances([l EXCEPT !.isConnected = FALSE,
                                    !.isConnecting = FALSE,
                                    !.stopReturned = @ + 1,
                                    !.stopRow = RowAfterReturn(l)])

\* stopSession after the second close returned: loudness 0, state Ended,
\* final commit.
stopAfterOutput(l) ==
    commitFinalUtterances([l EXCEPT !.audioLevelRef = 0,
                                    !.isConnected = FALSE,
                                    !.isConnecting = FALSE,
                                    !.stopReturned = @ + 1,
                                    !.stopRow = RowAfterReturn(l)])

\* stopSession after the input context's close returned: stopAllPlayback,
\* then close the output context unless it is absent or closed.  close() on a
\* context whose close is pending is awaited too ("outputAgain").
stopAfterInput(l) ==
    LET l1 == stopAllPlayback(l)
    IN  IF l1.outputAudioContextRef # 0 /\ l1.outputState = "running"
        THEN Suspend([l1 EXCEPT !.outputState = "closing"],
                     [at |-> "output", id |-> l1.outputAudioContextRef])
        ELSE IF l1.outputAudioContextRef # 0 /\ l1.outputState = "closing"
        THEN Suspend(l1, [at |-> "outputAgain", id |-> l1.outputAudioContextRef])
        ELSE stopAfterOutput(l1)

\* stopSession after the session promise s settled (s = 0: the ref was null):
\* close that session, null the ref, stop and release the microphone, then
\* disconnect and null the processor, then the source node, each when its
\* ref is set; close the input context.
stopAfterSession(l, s) ==
    LET l1 == [l EXCEPT
                 !.chan = IF s # 0 /\ l.chan[s] = "open"
                          THEN [l.chan EXCEPT ![s] = "closing"] ELSE l.chan,
                 !.sessionPromiseRef = 0,
                 !.heldStreams = l.heldStreams \ {l.mediaStreamRef},
                 !.mediaStreamRef = 0,
                 !.scriptProcessorRef = 0,
                 !.sourceNodeRef = 0,
                 !.teardownLog =
                     @ \o (IF l.mediaStreamRef # 0 THEN <<"stopTracks">> ELSE <<>>)
                       \o (IF l.scriptProcessorRef # 0
                           THEN <<"disconnectProcessor">> ELSE <<>>)
                       \o (IF l.sourceNodeRef # 0
                           THEN <<"disconnectSource">> ELSE <<>>)]
    IN  IF l1.inputAudioContextRef # 0 /\ l1.inputState = "running"
        THEN Suspend([l1 EXCEPT !.inputState = "closing"],
                     [at |-> "input", id |-> l1.inputAudioContextRef])
        ELSE IF l1.inputAudioContextRef # 0 /\ l1.inputState = "closing"
        THEN Suspend(l1, [at |-> "inputAgain", id |-> l1.inputAudioContextRef])
        ELSE stopAfterInput(l1)

\* stopSession from its call to its first suspension.
stopSession(l) ==
    LET s == l.sessionPromiseRef
        l1 == [l EXCEPT !.stopRow = RowAfterCall(l)]
    IN  IF s # 0 /\ l.chan[s] = "connecting"
        THEN Suspend(l1, [at |-> "session", id |-> s])
        ELSE stopAfterSession(l1, s)

\* The calls awaiting a further close of input context c resume.
RECURSIVE ResumeInputAgain(_, _)
ResumeInputAgain(l, c) ==
    LET p == [at |-> "inputAgain", id |-> c]
    IN  IF l.stops[p] = 0 THEN l
        ELSE ResumeInputAgain(stopAfterInput([l EXCEPT !.stops[p] = @ - 1]), c)

\* The calls awaiting a further close of output context c resume.
RECURSIVE ResumeOutputAgain(_, _)
ResumeOutputAgain(l, c) ==
    LET p == [at |-> "outputAgain", id |-> c]
    IN  IF l.stops[p] = 0 THEN l
        ELSE ResumeOutputAgain(stopAfterOutput([l EXCEPT !.stops[p] = @ - 1]), c)

\* Every stopSession call awaiting session promise s resumes, in call order.
RECURSIVE ResumeSessionWaiters(_, _)
ResumeSessionWaiters(l, s) ==
    LET p == [at |-> "session", id |-> s]
    IN  IF l.stops[p] = 0 THEN l
        ELSE ResumeSessionWaiters(stopAfterSession([l EXCEPT !.stops[p] = @ - 1], s), s)

\* The record at the start of a step: no stopSession call has returned in it.
Live0 == [live EXCEPT !.stopReturned = 0, !.toolLog = <<>>, !.teardownLog = <<>>,
                      !.stopAllRan = FALSE, !.frameLog = <<>>]

\* The record at the start of a step that is no part of a teardown (a start,
\* a channel opening, a message, a capture frame): it ends the row of stops.
Disturbed ==
    [Live0 EXCEPT !.stopRow = IF StopsInFlight(live) > 0 THEN "dirty" ELSE "none"]

NextStart == Cardinality({s \in SessionIds : live.startPc[s] # "none"}) + 1

\* startSession before its try block: Connecting, no error, empty history,
\* empty buffers, id counter 0.
startReset(l) ==
    [l EXCEPT !.isConnecting = TRUE,
              !.error = "null",
              !.transcriptHistory = <<>>,
              !.userUtteranceRef = Emp,
              !.modelUtteranceRef = Emp,
              !.transcriptIdCounter = 0]

\* A variant that starts no teardown.
startCatchNoTeardown(l, s) ==
    [l EXCEPT !.startPc[s] = "failed",
              !.error = "start",
              !.isConnecting = FALSE]

\* The catch block of startSession: record the error, leave Connecting,
\* stopSession().
startCatch(l, s) ==
    stopSession([l EXCEPT !.startPc[s] = "failed",
                          !.error = "start",
                          !.isConnecting = FALSE])

\* Click on a start button (shown when nothing is connected or connecting, or
\* after the user ended a session): handleStartLiveSession and startSession up
\* to getUserMedia.
HandleStartLiveSession ==
    /\ mode = "LIVE_CONVERSATION"
    /\ sessionEnded \/ (~live.isConnected /\ ~live.isConnecting)
    /\ NextStart <= MaxSessions
    /\ sessionEnded' = FALSE
    /\ UNCHANGED mode
    /\ LET fresh == live.outputAudioContextRef = 0 \/ live.outputState = "closed"
       IN  live' = [startReset(Disturbed) EXCEPT
                      !.outputAudioContextRef = IF fresh THEN NextStart ELSE @,
                      !.outputState = IF fresh THEN "running" ELSE @,
                      !.outputClock = IF fresh THEN 0 ELSE @,
                      !.startPc[NextStart] = "mic"]

\* The same click when the output context has to be made and its constructor
\* throws: the catch block runs in the same step.
StartFailsAtClick ==
    /\ mode = "LIVE_CONVERSATION"
    /\ sessionEnded \/ (~live.isConnected /\ ~live.isConnecting)
    /\ NextStart <= MaxSessions
    /\ live.outputAudioContextRef = 0 \/ live.outputState = "closed"
    /\ StopsInFlight(live) < MaxStops
    /\ sessionEnded' = FALSE
    /\ UNCHANGED mode
    /\ live' = startCatch(startReset(Disturbed), NextStart)

\* getUserMedia resolves for the s-th startSession call: keep the stream, make
\* the input context, connect, keep the session promise.
MicGranted(s) ==
    /\ live.startPc[s] = "mic"
    /\ live' = [Disturbed EXCEPT
                   !.startPc[s] = "done",
                   !.mediaStreamRef = s,
                   !.heldStreams = @ \cup {s},
                   !.inputAudioContextRef = s,
                   !.inputState = "running",
                   !.chan[s] = "connecting",
                   !.sessionPromiseRef = s]
    /\ UNCHANGED <<mode, sessionEnded>>

\* getUserMedia rejects: the catch block.
MicDenied(s) ==
    /\ live.startPc[s] = "mic"
    /\ StopsInFlight(live) < MaxStops
    /\ live' = startCatch(Live0, s)
    /\ UNCHANGED <<mode, sessionEnded>>

\* The points after getUserMedia at which startSession can throw: the
\* constructor of the input context, the creation of the channel.
SetupPoints == {"inputContext", "connect"}

\* getUserMedia resolves for the s-th startSession call and a later statement
\* of the try block throws: the stream is kept in mediaStreamRef, the input
\* context too when it was made, then the catch block runs.
SetupFails(s, point) ==
    /\ live.startPc[s] = "mic"
    /\ StopsInFlight(live) < MaxStops
    /\ LET l1 == [Disturbed EXCEPT !.mediaStreamRef = s,
                                   !.heldStreams = @ \cup {s}]
           l2 == IF point = "connect"
                 THEN [l1 EXCEPT !.inputAudioContextRef = s,
                                 !.inputState = "running"]
                 ELSE l1
       IN  live' = startCatch(l2, s)
    /\ UNCHANGED <<mode, sessionEnded>>

\* The session promise s resolved: the tool responses that wait for it are
\* sent, in the order of their then() calls.
sendPendingAcks(l, s) ==
    [l EXCEPT !.toolLog = @ \o SelectSeq(l.pendingAcks, LAMBDA a : a.session = s),
              !.pendingAcks = SelectSeq(@, LAMBDA a : a.session # s)]

\* The session promise s resolved: the capture frames that wait for it are
\* sent, in the order of their then() calls.
sendPendingFrames(l, s) ==
    LET waiting == SelectSeq(l.pendingFrames, LAMBDA f : f.chan = s)
    IN  [l EXCEPT !.frameLog =
                      @ \o [i \in 1..Len(waiting) |->
                               [chan |-> s, open |-> l.chan[s] = "open",
                                ok |-> waiting[i].ok /\ l.chan[s] = "open"]],
                  !.pendingFrames = SelectSeq(@, LAMBDA f : f.chan # s)]

\* onopen of channel s, then the session promise resolves.
OnOpen(s) ==
    /\ live.chan[s] = "connecting"
    /\ LET wire == live.inputAudioContextRef # 0 /\ live.mediaStreamRef # 0
           l1 == [Disturbed EXCEPT
                     !.chan[s] = "open",
                     !.isConnecting = FALSE,
                     !.isConnected = TRUE,
                     !.sourceNodeRef = IF wire THEN s ELSE @,
                     !.scriptProcessorRef = IF wire THEN s ELSE @]
       IN  live' = ResumeSessionWaiters(
                       sendPendingFrames(sendPendingAcks(l1, s), s), s)
    /\ UNCHANGED <<mode, sessionEnded>>

\* sendRealtimeInput either returns or throws.
SendOutcomes == {"sent", "throws"}

\* A variant in which a send that throws disconnects the processor.
sendFrameHaltsOnFailure(l, outcome) ==
    LET s == l.sessionPromiseRef
    IN  IF s = 0 THEN l
        ELSE [l EXCEPT !.frameLog = @ \o <<[chan |-> s, open |-> l.chan[s] = "open",
                                            ok |-> outcome = "sent"]>>,
                       !.scriptProcessorRef = IF outcome = "sent" THEN @ ELSE 0]

\* The end of onaudioprocess: nothing when the session promise ref is null;
\* otherwise sendRealtimeInput on the session the promise in the ref at this
\* moment resolves to, once it has resolved.  A send that throws (it does on
\* a channel that is not open) is caught and logged.
sendFrame(l, outcome) ==
    LET s == l.sessionPromiseRef
    IN  IF s = 0 THEN l
        ELSE IF l.chan[s] = "connecting"
        THEN [l EXCEPT !.pendingFrames =
                           @ \o <<[chan |-> s, ok |-> outcome = "sent"]>>]
        ELSE [l EXCEPT !.frameLog =
                           @ \o <<[chan |-> s, open |-> l.chan[s] = "open",
                                   ok |-> outcome = "sent" /\ l.chan[s] = "open"]>>]

\* onaudioprocess of the capture processor: update the loudness, encode the
\* frame, send it.
OnAudioProcess(level, outcome) ==
    /\ live.scriptProcessorRef # 0
    /\ live' = sendFrame([Disturbed EXCEPT !.audioLevelRef = level], outcome)
    /\ UNCHANGED <<mode, sessionEnded>>

\* onerror of an open channel: record the message, stopSession().  The
\* channel's close event follows.
OnError(s) ==
    /\ live.chan[s] = "open"
    /\ StopsInFlight(live) < MaxStops
    /\ live' = stopSession([Live0 EXCEPT !.chan[s] = "closing", !.error = "live"])
    /\ UNCHANGED <<mode, sessionEnded>>

\* onclose of channel s (closed by the peer, or after close() or an error).
OnClose(s) ==
    /\ live.chan[s] \in {"open", "closing"}
    /\ StopsInFlight(live) < MaxStops
    /\ live' = stopSession([Live0 EXCEPT !.chan[s] = "closed"])
    /\ UNCHANGED <<mode, sessionEnded>>

\* Click on End Conversation (shown while connected).
HandleStopLiveSession ==
    /\ mode = "LIVE_CONVERSATION"
    /\ live.isConnected
    /\ StopsInFlight(live) < MaxStops
    /\ live' = stopSession(Live0)
    /\ sessionEnded' = TRUE
    /\ UNCHANGED mode

\* Input context c is closed: the call that closed it resumes, then the calls
\* that await a further close of it.
InputCloseReturns(c) ==
    /\ live.stops[[at |-> "input", id |-> c]] > 0
    /\ live' = ResumeInputAgain(
                  stopAfterInput(
                     [Live0 EXCEPT !.stops[[at |-> "input", id |-> c]] = @ - 1,
                                  !.inputState = IF live.inputAudioContextRef = c
                                                 THEN "closed" ELSE @]), c)
    /\ UNCHANGED <<mode, sessionEnded>>

\* A further close of input context c settles before c is closed (a browser
\* that rejects it at once): the awaiting call resumes.
InputCloseAgainReturns(c) ==
    /\ live.stops[[at |-> "inputAgain", id |-> c]] > 0
    /\ live' = stopAfterInput([Live0 EXCEPT !.stops[[at |-> "inputAgain", id |-> c]] = @ - 1])
    /\ UNCHANGED <<mode, sessionEnded>>

\* Output context c is closed: the call that closed it resumes, then the
\* calls that await a further close of it.
OutputCloseReturns(c) ==
    /\ live.stops[[at |-> "output", id |-> c]] > 0
    /\ live' = ResumeOutputAgain(
                  stopAfterOutput(
                     [Live0 EXCEPT !.stops[[at |-> "output", id |-> c]] = @ - 1,
                                  !.outputState = IF live.outputAudioContextRef = c
                                                  THEN "closed" ELSE @]), c)
    /\ UNCHANGED <<mode, sessionEnded>>

\* A further close of output context c settles before c is closed.
OutputCloseAgainReturns(c) ==
    /\ live.stops[[at |-> "outputAgain", id |-> c]] > 0
    /\ live' = stopAfterOutput([Live0 EXCEPT !.stops[[at |-> "outputAgain", id |-> c]] = @ - 1])
    /\ UNCHANGED <<mode, sessionEnded>>

\* The cleanup of ChatInterface's effect runs when isConnected changed since
\* the effect last ran: stopTtsPlayback, and stopSession when the captured
\* isConnected was true.
EffectCleanup ==
    /\ live.effectConnected # live.isConnected
    /\ StopsInFlight(live) < MaxStops
    /\ LET l1 == [Live0 EXCEPT !.effectConnected = live.isConnected]
       IN  live' = IF live.effectConnected THEN stopSession(l1) ELSE l1
    /\ TtsCommit(stopTtsPlayback(TtsRefs))
    /\ UNCHANGED <<mode, sessionEnded, ttsClock>>

\* A variant that stops nothing.
interruptedBranchNoStop(l, n) == [l EXCEPT !.lastInterrupt = n]

\* The interruption branch of onmessage, for message number n.
interruptedBranch(l, n) == [stopAllPlayback(l) EXCEPT !.lastInterrupt = n]

\* playAudio after its decode returned for the suspended call p: start a
\* source at the offset as it is now, advance the offset, add to the set.
playAudioAfterDecode(l, p, duration) ==
    LET source == [seq |-> l.audioSeq + 1, msg |-> p.msg, ctx |-> p.ctx,
                   start |-> l.nextStartTimeRef, duration |-> duration]
    IN  [l EXCEPT !.audioSeq = @ + 1,
                  !.nextStartTimeRef = @ + duration,
                  !.audioSourcesRef = @ \cup {source}]

\* playAudio up to its decode: nothing without an output context; else raise
\* the offset to the clock and suspend at decodeAudioData.
playAudio(l, interrupted) ==
    IF l.outputAudioContextRef = 0
    THEN IF interrupted THEN interruptedBranch(l, l.messages) ELSE l
    ELSE [l EXCEPT !.nextStartTimeRef = Max(@, l.outputClock),
                   !.decoding = @ \cup {[msg |-> l.messages,
                                         ctx |-> l.outputAudioContextRef,
                                         interrupted |-> interrupted]}]

\* A variant that commits the buffers as they are, without trimming.
turnCompleteCommitUntrimmed(l) == commitFinalUtterances(l)

\* The turn-complete branch of onmessage: trim both buffers, one Transcript
\* per non-empty trimmed text, user first, then clear both buffers.
turnCompleteCommit(l) ==
    LET finalUserText == Trim(l.userUtteranceRef)
        finalModelText == Trim(l.modelUtteranceRef)
        n1 == IF finalUserText # Emp THEN l.transcriptIdCounter + 1
              ELSE l.transcriptIdCounter
        n2 == IF finalModelText # Emp THEN n1 + 1 ELSE n1
        u  == IF finalUserText # Emp
              THEN <<[id |-> TranscriptId(n1), text |-> finalUserText,
                      source |-> "user"]>>
              ELSE <<>>
        m  == IF finalModelText # Emp
              THEN <<[id |-> TranscriptId(n2), text |-> finalModelText,
                      source |-> "model"]>>
              ELSE <<>>
    IN  [l EXCEPT !.transcriptIdCounter = n2,
                  !.transcriptHistory = @ \o u \o m,
                  !.userUtteranceRef = Emp,
                  !.modelUtteranceRef = Emp]

\* fc.name === 'addToScratchpad' && fc.args.content: "undefined" stands for
\* an absent argument, "" for the empty string; both are falsy.
ToolCallAccepted(fc) ==
    fc.name = "addToScratchpad" /\ fc.content \notin {"undefined", ""}

\* The tool-call loop of onmessage: for every accepted call, in order, the
\* scratchpad callback is invoked and a then() is put on the session promise
\* in sessionPromiseRef (none when the ref is null).  The responses of a
\* resolved promise are sent once the handler has reached its end or its
\* first await, those of a pending promise when it resolves.
toolCallLoop(l, calls) ==
    LET accepted == SelectSeq(calls, ToolCallAccepted)
        callbacks == [i \in 1..Len(accepted) |->
                         [event |-> "callback", id |-> accepted[i].id,
                          content |-> accepted[i].content, session |-> 0]]
        acks == [i \in 1..Len(accepted) |->
                    [event |-> "ack", id |-> accepted[i].id,
                     content |-> "", session |-> l.sessionPromiseRef]]
        ref == l.sessionPromiseRef
    IN  IF ref = 0
        THEN [l EXCEPT !.toolLog = @ \o callbacks]
        ELSE IF l.chan[ref] = "connecting"
        THEN [l EXCEPT !.toolLog = @ \o callbacks, !.pendingAcks = @ \o acks]
        ELSE [l EXCEPT !.toolLog = @ \o callbacks \o acks]

\* onmessage of the open channel s.  m.toolCalls: the function calls of the
\* message; m.inText, m.outText: partial input and output transcription (Emp:
\* absent); m.turnComplete; m.audio: an inline audio payload is present;
\* m.interrupted.
OnMessage(s, m) ==
    /\ live.chan[s] = "open"
    /\ Len(live.userUtteranceRef) + Len(m.inText) <= MaxText
    /\ Len(live.modelUtteranceRef) + Len(m.outText) <= MaxText
    /\ LET l0 == toolCallLoop([Disturbed EXCEPT !.messages = @ + 1], m.toolCalls)
           l1 == [l0 EXCEPT !.userUtteranceRef = @ \o m.inText,
                            !.modelUtteranceRef = @ \o m.outText]
           l2 == IF m.turnComplete THEN turnCompleteCommit(l1) ELSE l1
       IN  live' = IF m.audio THEN playAudio(l2, m.interrupted)
                   ELSE IF m.interrupted THEN interruptedBranch(l2, l2.messages)
                   ELSE l2
    /\ UNCHANGED <<mode, sessionEnded>>

\* decodeAudioData returns inside the suspended playAudio call p; afterwards
\* onmessage handles the interruption flag of the same message.
LiveDecodeReturns(p, duration, outcome) ==
    /\ p \in live.decoding
    /\ LET l1 == [Live0 EXCEPT !.decoding = @ \ {p}]
           l2 == playAudioAfterDecode(l1, p, duration)
       IN  live' = IF outcome = "error" THEN l1
                   ELSE IF p.interrupted THEN interruptedBranch(l2, p.msg)
                   ELSE l2
    /\ UNCHANGED <<mode, sessionEnded>>

\* 'ended' of a source that played to its end on the running output context.
LiveSourceEnded(src) ==
    /\ src \in live.audioSourcesRef
    /\ src.ctx = live.outputAudioContextRef
    /\ live.outputState # "closed"
    /\ live.outputClock >= src.start + src.duration
    /\ live' = [Live0 EXCEPT !.audioSourcesRef = @ \ {src}]
    /\ UNCHANGED <<mode, sessionEnded>>

\* currentTime of the output context advances until the context is closed.
LiveClockTick ==
    /\ live.outputAudioContextRef # 0
    /\ live.outputState # "closed"
    /\ live.outputClock < MaxClock
    /\ live' = [Live0 EXCEPT !.outputClock = @ + 1]
    /\ UNCHANGED <<mode, sessionEnded>>

LiveInit ==
    /\ live = [isConnecting |-> FALSE, isConnected |-> FALSE, error |-> "null",
               transcriptHistory |-> <<>>, transcriptIdCounter |-> 0,
               userUtteranceRef |-> Emp, modelUtteranceRef |-> Emp,
               sessionPromiseRef |-> 0, mediaStreamRef |-> 0,
               inputAudioContextRef |-> 0, inputState |-> "none",
               outputAudioContextRef |-> 0, outputState |-> "none",
               scriptProcessorRef |-> 0, sourceNodeRef |-> 0,
               nextStartTimeRef |-> 0, audioSourcesRef |-> {}, audioLevelRef |-> 0,
               chan |-> [s \in SessionIds |-> "none"],
               startPc |-> [s \in SessionIds |-> "none"],
               stops |-> [p \in StopPoints |-> 0],
               heldStreams |-> {}, effectConnected |-> FALSE, messages |-> 0,
               decoding |-> {}, outputClock |-> 0, audioSeq |-> 0,
               stopReturned |-> 0, stopRow |-> "none",
               toolLog |-> <<>>, pendingAcks |-> <<>>, teardownLog |-> <<>>,
               stopAllRan |-> FALSE,
               lastInterrupt |-> 0,
               frameLog |-> <<>>, pendingFrames |-> <<>>]
    /\ sessionEnded = FALSE

\* The partial transcriptions a message may carry: none, white space only,
\* text with white space around it.
Texts == {t \in UNION {[1..n -> Chars] : n \in 0..MaxText} :
             t = Emp \/ Head(t) = " "}

\* Messages that carry transcription only, and messages that carry audio only.
TextMessages ==
    [toolCalls : {<<>>}, inText : Texts, outText : Texts, turnComplete : BOOLEAN,
     audio : {FALSE}, interrupted : {FALSE}]
AudioMessages ==
    [toolCalls : {<<>>}, inText : {Emp}, outText : {Emp}, turnComplete : {FALSE},
     audio : BOOLEAN, interrupted : BOOLEAN]

\* Messages of server content: transcription, turn-complete marker, audio
\* and interruption signal in every combination.
ContentMessages ==
    [toolCalls : {<<>>}, inText : {Emp, <<"a">>}, outText : {Emp, <<"a">>},
     turnComplete : BOOLEAN, audio : BOOLEAN, interrupted : BOOLEAN]

\* Messages that carry function calls only.
FunctionCalls ==
    [name : {"addToScratchpad", "other"}, content : {"undefined", "", "a"},
     id : 1..MaxCalls]
ToolMessages ==
    [toolCalls : UNION {[1..n -> FunctionCalls] : n \in 1..MaxCalls},
     inText : {Emp}, outText : {Emp}, turnComplete : {FALSE},
     audio : {FALSE}, interrupted : {FALSE}]

\* The session's lifecycle: start, stop, the channel's events, the effect.
LifecycleNext ==
    \/ HandleStartLiveSession
    \/ StartFailsAtClick
    \/ \E s \in SessionIds : MicGranted(s)
    \/ \E s \in SessionIds : MicDenied(s)
    \/ \E s \in SessionIds, point \in SetupPoints : SetupFails(s, point)
    \/ \E s \in SessionIds : OnOpen(s)
    \/ \E level \in {0, 1}, outcome \in SendOutcomes : OnAudioProcess(level, outcome)
    \/ \E s \in SessionIds : OnError(s)
    \/ \E s \in SessionIds : OnClose(s)
    \/ HandleStopLiveSession
    \/ \E c \in SessionIds : InputCloseReturns(c)
    \/ \E c \in SessionIds : InputCloseAgainReturns(c)
    \/ \E c \in SessionIds : OutputCloseReturns(c)
    \/ \E c \in SessionIds : OutputCloseAgainReturns(c)

LiveNext ==
    \/ LifecycleNext
    \/ \E s \in SessionIds, m \in TextMessages :
          live.messages < MaxMessages /\ OnMessage(s, m)

AudioNext ==
    \/ LifecycleNext
    \/ \E s \in SessionIds, m \in AudioMessages :
          live.messages < MaxMessages /\ OnMessage(s, m)
    \/ \E p \in live.decoding, d \in 1..MaxDuration, o \in DecodeOutcomes :
          LiveDecodeReturns(p, d, o)
    \/ \E src \in live.audioSourcesRef : LiveSourceEnded(src)
    \/ LiveClockTick

\* One session from its start on, with up to MaxInbound messages of every
\* kind while its channel is open.
MessagesNext ==
    \/ NextStart = 1 /\ HandleStartLiveSession
    \/ MicGranted(1)
    \/ OnOpen(1)
    \/ \E m \in ContentMessages \cup ToolMessages :
          live.messages < MaxInbound /\ OnMessage(1, m)
    \/ \E p \in live.decoding, d \in 1..MaxDuration, o \in DecodeOutcomes :
          LiveDecodeReturns(p, d, o)
    \/ \E src \in live.audioSourcesRef : LiveSourceEnded(src)
    \/ LiveClockTick

-----------------------------------------------------------------------------
(***************************************************************************)
(* chunkText (ChatInterface).  A text is a sequence of characters: "a"     *)
(* stands for every character that neither ends a sentence nor is white    *)
(* space, "." for the sentence ends . ! ?, " " and "\n" for white space,   *)
(* "\n" being the one character the pattern's dot does not match.          *)
(***************************************************************************)
ChunkChars == {"a", ".", " ", "\n"}

SentenceEnds == {"."}

\* The index after the longest run of characters of S that starts at i.
RunEnd(t, i, S) ==
    CHOOSE j \in i..(Len(t) + 1) :
        /\ j = Len(t) + 1 \/ t[j] \notin S
        /\ \A k \in i..(j - 1) : t[k] \in S

\* The index after the match of /[^.!?]+[.!?]*\s*|.+/ at i: the first
\* alternative when the character at i ends no sentence, else the second,
\* which runs to the end of the line.
MatchEnd(t, i) ==
    IF t[i] \notin SentenceEnds
    THEN RunEnd(t, RunEnd(t, RunEnd(t, i, ChunkChars \ SentenceEnds),
                          SentenceEnds), WhiteSpace)
    ELSE RunEnd(t, i, ChunkChars \ {"\n"})

\* text.match(/[^.!?]+[.!?]*\s*|.+/g) || [], from index i on.
RECURSIVE Sentences(_, _)
Sentences(t, i) ==
    IF i > Len(t) THEN <<>>
    ELSE LET j == MatchEnd(t, i)
         IN  <<SubSeq(t, i, j - 1)>> \o Sentences(t, j)

\* The pieces sentence.substring(i, i + maxLength) of a long sentence.
RECURSIVE Pieces(_, _, _)
Pieces(sentence, i, maxLength) ==
    IF i > Len(sentence) THEN <<>>
    ELSE <<SubSeq(sentence, i, IF i + maxLength - 1 < Len(sentence)
                               THEN i + maxLength - 1 ELSE Len(sentence))>>
         \o Pieces(sentence, i + maxLength, maxLength)

\* A variant that pushes the chunk after every sentence.
RECURSIVE chunkLoopEager(_, _, _, _, _)
chunkLoopEager(sentences, k, maxLength, chunks, currentChunk) ==
    IF k > Len(sentences) THEN chunks
    ELSE chunkLoopEager(sentences, k + 1, maxLength,
                        chunks \o Pieces(sentences[k], 1, maxLength), <<>>)

\* The loop of chunkText over the sentences from the k-th on, and the push
\* of the last chunk after it.
RECURSIVE chunkLoop(_, _, _, _, _)
chunkLoop(sentences, k, maxLength, chunks, currentChunk) ==
    IF k > Len(sentences)
    THEN IF currentChunk # <<>> THEN Append(chunks, currentChunk) ELSE chunks
    ELSE LET sentence == sentences[k] IN
         IF Len(sentence) > maxLength
         THEN chunkLoop(sentences, k + 1, maxLength,
                        (IF currentChunk # <<>> THEN Append(chunks, currentChunk)
                         ELSE chunks) \o Pieces(sentence, 1, maxLength),
                        <<>>)
         ELSE IF Len(currentChunk) + Len(sentence) > maxLength
         THEN chunkLoop(sentences, k + 1, maxLength,
                        IF currentChunk # <<>> THEN Append(chunks, currentChunk)
                        ELSE chunks,
                        sentence)
         ELSE chunkLoop(sentences, k + 1, maxLength, chunks,
                        currentChunk \o sentence)

\* A variant that never starts a new chunk at a sentence boundary.
chunkTextOneChunk(text, maxLength) ==
    SelectSeq(<<text>>, LAMBDA c : Trim(c) # <<>>)

\* A variant that returns the chunks as they were pushed.
chunkTextUnfiltered(text, maxLength) ==
    chunkLoop(Sentences(text, 1), 1, maxLength, <<>>, <<>>)

\* A variant that trims every chunk.
chunkTextTrimmed(text, maxLength) ==
    LET chunks == SelectSeq(chunkLoop(Sentences(text, 1), 1, maxLength, <<>>, <<>>),
                            LAMBDA c : Trim(c) # <<>>)
    IN  [i \in 1..Len(chunks) |-> Trim(chunks[i])]

\* chunkText: the sentences of the text, gathered into chunks, without the
\* chunks that are white space only.
chunkText(text, maxLength) ==
    SelectSeq(chunkLoop(Sentences(text, 1), 1, maxLength, <<>>, <<>>),
              LAMBDA c : Trim(c) # <<>>)

\* The texts and the limits chunkText is called with.
ChunkTexts == UNION {[1..n -> ChunkChars] : n \in 0..MaxChunkText}

\* No call of chunkText is looked at.
ChunkerIdle ==
    chunker = [text |-> <<>>, maxLength |-> 1, called |-> FALSE, chunks |-> <<>>,
               pushed |-> <<>>]

\* A call of chunkText is about to be made.
ChunkerInit ==
    chunker \in [text : ChunkTexts, maxLength : 1..MaxLength, called : {FALSE},
                 chunks : {<<>>}, pushed : {<<>>}]

\* The call returns; pushed observes the chunks as they were pushed, before
\* the filter.
CallChunkText ==
    /\ ~chunker.called
    /\ chunker' = [chunker EXCEPT !.called = TRUE,
                                  !.chunks = chunkText(chunker.text, chunker.maxLength),
                                  !.pushed = chunkLoop(Sentences(chunker.text, 1), 1,
                                                       chunker.maxLength, <<>>, <<>>)]
    /\ UNCHANGED <<mode, ttsVars, liveVars, reader, encoder>>

-----------------------------------------------------------------------------
(***************************************************************************)
(* The text handleReadAloud reads.  The context text is a sequence over    *)
(* ChunkChars; the page shows the read-aloud button and the sentences only *)
(* while the context is set, and a context is submitted only when it holds *)
(* a character that is not white space.                                    *)
(***************************************************************************)
TTS_CHARACTER_LIMIT == 5000

RECURSIVE Join(_)
Join(seqs) == IF seqs = <<>> THEN <<>> ELSE Head(seqs) \o Join(Tail(seqs))

\* text.split('\n'), from index i on.
RECURSIVE SplitLines(_, _)
SplitLines(t, i) ==
    LET j == RunEnd(t, i, ChunkChars \ {"\n"})
    IN  IF j > Len(t) THEN <<SubSeq(t, i, Len(t))>>
        ELSE <<SubSeq(t, i, j - 1)>> \o SplitLines(t, j + 1)

\* The sentences of each paragraph in turn, in one list.
RECURSIVE FlatSentences(_)
FlatSentences(paragraphs) ==
    IF paragraphs = <<>> THEN <<>>
    ELSE Sentences(Head(paragraphs), 1) \o FlatSentences(Tail(paragraphs))

\* The paragraphs the page renders, each sentence of them a click target.
RenderedParagraphs(contextText) ==
    SelectSeq(SplitLines(contextText, 1), LAMBDA par : Trim(par) # <<>>)

\* handleSentenceClick's index of sentence sIndex of rendered paragraph pIndex
\* (both counted from 0).
overallSentenceIndex(contextText, pIndex, sIndex) ==
    Len(FlatSentences(SubSeq(RenderedParagraphs(contextText), 1, pIndex))) + sIndex

\* window.getSelection(): collapsed, or a range with its text.
Selections ==
    {[isCollapsed |-> TRUE, text |-> <<>>]}
        \cup [isCollapsed : {FALSE}, text : {<<" ">>, <<"a", " ">>}]

\* A variant that reads the whole text from a resume index as well.
resolveTextIgnoresIndex(contextText, selection, index) ==
    IF ~selection.isCollapsed /\ Trim(selection.text) # <<>>
    THEN selection.text
    ELSE contextText

\* textToRead of handleReadAloud: the selection when it is a range whose
\* trimmed text is non-empty, else the sentences from the resume index on,
\* joined, when the index is set and within the sentences, else the context.
resolveText(contextText, selection, index) ==
    LET sentences == FlatSentences(SplitLines(contextText, 1))
    IN  IF ~selection.isCollapsed /\ Trim(selection.text) # <<>>
        THEN selection.text
        ELSE IF index # NoSentence /\ index < Len(sentences)
        THEN Join(SubSeq(sentences, index + 1, Len(sentences)))
        ELSE contextText

ContextTexts ==
    {t \in UNION {[1..n -> ChunkChars] : n \in 1..MaxContext} : Trim(t) # <<>>}

\* No context is looked at.
ReaderIdle ==
    reader = [contextText |-> <<"a">>, clicked |-> <<>>,
              selection |-> [isCollapsed |-> TRUE, text |-> <<>>],
              textToRead |-> <<>>, called |-> FALSE]

\* A context has been submitted.
ReaderInit ==
    reader \in [contextText : ContextTexts, clicked : {<<>>},
                selection : {[isCollapsed |-> TRUE, text |-> <<>>]},
                textToRead : {<<>>}, called : {FALSE}]

\* Click on sentence sIndex of rendered paragraph pIndex.
SentenceClick(pIndex, sIndex) ==
    LET rendered == RenderedParagraphs(reader.contextText) IN
    /\ pIndex < Len(rendered)
    /\ sIndex < Len(Sentences(rendered[pIndex + 1], 1))
    /\ HandleSentenceClick(overallSentenceIndex(reader.contextText, pIndex, sIndex))
    /\ reader' = [reader EXCEPT !.clicked = IF activeSentenceIndex' = NoSentence
                                            THEN <<>> ELSE <<pIndex, sIndex>>,
                                !.called = FALSE]
    /\ UNCHANGED <<liveVars, chunker, encoder>>

\* Click on the read-aloud button with the given selection on the page.
ReadAloudClick(selection) ==
    LET textToRead == resolveText(reader.contextText, selection, activeSentenceIndex)
        stops == ttsStatus \in {"fetching", "playing"}
    IN  /\ reader' = [reader EXCEPT !.selection = selection,
                                    !.textToRead = IF stops THEN <<>> ELSE textToRead,
                                    !.called = ~stops,
                                    !.clicked = IF stops THEN <<>> ELSE @]
        /\ IF ~stops /\ textToRead = <<>>
           THEN UNCHANGED <<mode, ttsVars>>
           ELSE HandleReadAloud(Len(chunkText(textToRead, TTS_CHARACTER_LIMIT)))
        /\ UNCHANGED <<liveVars, chunker, encoder>>

-----------------------------------------------------------------------------
(***************************************************************************)
(* PCM encoding of a capture frame (onaudioprocess).  A sample is n / Grid *)
(* for an integer n; the samples of the microphone lie in [-1, 1].         *)
(***************************************************************************)
Scale == 32768

Samples == (0 - Grid)..Grid

\* The integer part of a / b, b > 0: the fraction is dropped.
Truncate(a, b) == IF a >= 0 THEN a \div b ELSE 0 - ((0 - a) \div b)

\* The conversion of a number to an element of an Int16Array: the integer
\* modulo 2^16, read as a signed value of 16 bits.
ToInt16(x) ==
    LET m == x % (2 * Scale)
    IN  IF m >= Scale THEN m - 2 * Scale ELSE m

\* new Int16Array(inputData.map(f => f * 32768)), for the sample n / Grid.
encodeSample(n) == ToInt16(Truncate(n * Scale, Grid))

Frames == UNION {[1..k -> Samples] : k \in 1..MaxFrame}

\* No frame is being encoded.
EncoderIdle == encoder = [frame |-> <<>>, data |-> <<>>, called |-> FALSE]

\* A frame has been captured.
EncoderInit == encoder \in [frame : Frames, data : {<<>>}, called : {FALSE}]

\* onaudioprocess builds the data of pcmBlob.
EncodeFrame ==
    /\ ~encoder.called
    /\ encoder' = [encoder EXCEPT
                      !.called = TRUE,
                      !.data = [i \in 1..Len(encoder.frame) |->
                                   encodeSample(encoder.frame[i])]]
    /\ UNCHANGED <<mode, ttsVars, liveVars, chunker, reader>>

TtsInit ==
    /\ ttsStatus = "idle"
    /\ activeSentenceIndex = NoSentence
    /\ isCancelledRef = FALSE
    /\ nextTtsStartTimeRef = 0
    /\ ttsAudioSourcesRef = {}
    /\ ttsClock = 0
    /\ ttsRuns = [r \in RunIds |-> NoRun]
    /\ ttsStopped = 0
    /\ ttsSeq = 0
    /\ ttsLast = <<0, 0>>
    /\ ttsAlerts = 0
    /\ ttsStopRan = FALSE

TtsNext ==
    \/ \E n \in 1..MaxChunks : HandleReadAloud(n)
    \/ \E r \in RunIds, audioData \in BOOLEAN : SynthReturns(r, audioData)
    \/ \E r \in RunIds, d \in 1..MaxDuration, o \in DecodeOutcomes : DecodeReturns(r, d, o)
    \/ \E s \in ttsAudioSourcesRef : TtsSourceEnded(s)
    \/ TtsStoppedSourceEnded
    \/ HandleNewContext
    \/ \E i \in 0..(MaxSentence - 1) : HandleSentenceClick(i)
    \/ TtsClockTick

Init == mode \in AppModes /\ TtsInit /\ LiveInit /\ ChunkerIdle /\ ReaderIdle /\ EncoderIdle

\* The read-aloud pipeline on its own.
SpecTts == Init /\ [][TtsNext /\ UNCHANGED <<mode, liveVars, callVars>>]_vars

\* The realtime session with transcription messages; only the effect cleanup
\* touches the read-aloud state.
SpecLive ==
    Init /\ [][\/ LiveNext /\ UNCHANGED <<ttsVars, callVars>>
               \/ EffectCleanup /\ UNCHANGED callVars]_vars

\* One realtime session and its inbound messages.
SpecMessages == Init /\ [][MessagesNext /\ UNCHANGED <<ttsVars, callVars>>]_vars

\* The realtime session with audio messages.
SpecAudio ==
    Init /\ [][\/ AudioNext /\ UNCHANGED <<ttsVars, callVars>>
               \/ EffectCleanup /\ UNCHANGED callVars]_vars

\* The read-aloud pipeline and the realtime session with audio messages, each
\* in its mode.
SpecPlayback ==
    Init /\ [][\/ TtsNext /\ UNCHANGED <<mode, liveVars, callVars>>
               \/ AudioNext /\ UNCHANGED <<ttsVars, callVars>>
               \/ EffectCleanup /\ UNCHANGED callVars]_vars

\* Calls of chunkText with every text and limit within the bounds.
InitChunk == mode \in AppModes /\ TtsInit /\ LiveInit /\ ChunkerInit /\ ReaderIdle /\ EncoderIdle

SpecChunk == InitChunk /\ [][CallChunkText]_vars

\* Clicks on the sentences of a context and on the read-aloud button.
InitReader ==
    mode = "TEXT_CHAT" /\ TtsInit /\ LiveInit /\ ChunkerIdle /\ ReaderInit /\ EncoderIdle

ReaderNext ==
    \/ \E pIndex, sIndex \in 0..(MaxContext - 1) : SentenceClick(pIndex, sIndex)
    \/ \E selection \in Selections : ReadAloudClick(selection)

SpecReader == InitReader /\ [][ReaderNext]_vars

\* The encoding of every frame within the bounds.
InitEncode ==
    mode \in AppModes /\ TtsInit /\ LiveInit /\ ChunkerIdle /\ ReaderIdle
        /\ EncoderInit

SpecEncode == InitEncode /\ [][EncodeFrame]_vars

-----------------------------------------------------------------------------
(***************************************************************************)
(* Properties of the playback schedulers and of the read-aloud pipeline.   *)
(***************************************************************************)
NoOverlapTts ==
    \A a, b \in ttsAudioSourcesRef :
        a.id < b.id => b.start >= a.start + a.duration

NoOverlapLive ==
    \A a, b \in live.audioSourcesRef :
        a.seq < b.seq => b.start >= a.start + a.duration

\* C1: in the read-aloud scheduler and in the session scheduler alike, of any
\* two sources that are in the active set together the one started later is
\* scheduled no earlier than the scheduled start of the other plus its
\* duration.
C1_BuffersNeverOverlap == NoOverlapTts /\ NoOverlapLive

\* Run r issues a synthesis request in this step.
RunRequests(r) ==
    /\ ttsRuns'[r].pc = "fetch"
    /\ ttsRuns[r].pc # "fetch" \/ ttsRuns'[r].cursor # ttsRuns[r].cursor

\* Audio of run r is in the active set after this step that was not before.
RunEnqueues(r) ==
    \E s \in ttsAudioSourcesRef' \ ttsAudioSourcesRef : s.run = r

\* C2: once stopTtsPlayback ran while run r was in flight, r issues no
\* further synthesis request and adds no further audio to the active set, and
\* the active set is empty when r has left its loop and returned.
C2_CancelStopsRun ==
    [][\A r \in RunIds :
          ttsRuns[r].cancelSeen =>
              /\ ~RunRequests(r)
              /\ ~RunEnqueues(r)
              /\ ttsRuns'[r].pc = "done" => ttsAudioSourcesRef' = {}]_vars

AtMostOneOutstanding ==
    Cardinality({r \in RunIds : ttsRuns[r].pc = "fetch"}) <= 1

\* C3: at most one synthesis request is outstanding over all invocations; a
\* run requests its chunks in increasing order, each at most once; a chunk
\* after the first is started right after an earlier chunk of the same run,
\* with no audio of another run started in between, and the first chunk of a
\* run is started once.
C3_OneRequestInOrder ==
    [][/\ AtMostOneOutstanding'
       /\ \A r \in RunIds :
             RunRequests(r) => ttsRuns'[r].cursor > ttsRuns[r].cursor
       /\ ttsSeq' # ttsSeq =>
             IF ttsLast'[2] > 1
             THEN ttsLast[1] = ttsLast'[1] /\ ttsLast[2] < ttsLast'[2]
             ELSE ttsLast[1] # ttsLast'[1]]_vars

-----------------------------------------------------------------------------
(***************************************************************************)
(* Properties of the realtime session.                                     *)
(***************************************************************************)
\* startSession is invoked in this step.
StartStep ==
    \E s \in SessionIds : live.startPc[s] = "none" /\ live'.startPc[s] # "none"

OpenChannels(l) == {s \in SessionIds : l.chan[s] = "open"}

\* C4: at most one channel is open and at most one microphone stream is held
\* at any time, and startSession is never invoked while a stopSession call
\* requested earlier has not yet returned.
C4_OneSessionAtATime ==
    [][/\ Cardinality(OpenChannels(live')) <= 1
       /\ Cardinality(live'.heldStreams) <= 1
       /\ StartStep => StopsInFlight(live) = 0]_vars

\* Everything stopSession releases is released and the state is Ended.
TornDown(l) ==
    /\ ~l.isConnecting /\ ~l.isConnected
    /\ l.sessionPromiseRef = 0 /\ l.mediaStreamRef = 0
    /\ l.scriptProcessorRef = 0 /\ l.sourceNodeRef = 0
    /\ l.inputState \in {"none", "closed"}
    /\ l.outputState \in {"none", "closed"}
    /\ l.audioLevelRef = 0

\* C5: while stopSession calls follow one another with nothing but teardown
\* in between (one after the other or overlapping, the first of them maybe
\* before any session was connected): when at least one has returned and none
\* is in flight the session is torn down, and after the first has returned
\* the later ones append no Transcript. A step that invokes startSession
\* ends the row, also when its catch block calls stopSession in that step.
C5_StopIdempotent ==
    [][/\ (live'.stopRow \in {"returned", "repeated"} /\ StopsInFlight(live') = 0) =>
              TornDown(live')
       /\ (/\ live.stopRow \in {"returned", "repeated"}
           /\ live'.stopReturned > 0
           /\ ~StartStep) =>
              live'.transcriptHistory = live.transcriptHistory]_vars

\* A second stopSession call in a row has just returned, none is in flight,
\* and the history holds what the first one committed.
C5_Witness ==
    /\ live.stopRow = "repeated"
    /\ live.stopReturned > 0
    /\ StopsInFlight(live) = 0
    /\ Len(live.transcriptHistory) >= 1

\* The state stopSession finds when it is called in this step: the state
\* before the step, after the reset of startSession when the call comes from
\* the catch block of a startSession invoked in this step.
AtStopCall == IF StartStep THEN startReset(live) ELSE live

\* C6: when a stopSession call returns, both buffers are empty and the
\* history is the history stopSession found followed by one Transcript of
\* source user holding the user buffer's text if that was non-empty, then one
\* of source model holding the model buffer's text if that was non-empty.
C6_FinalCommit ==
    [][live'.stopReturned > 0 =>
          LET u == AtStopCall.userUtteranceRef
              m == AtStopCall.modelUtteranceRef
              h == AtStopCall.transcriptHistory
              g == live'.transcriptHistory
              nu == IF u # Emp THEN 1 ELSE 0
              nm == IF m # Emp THEN 1 ELSE 0
          IN  /\ live'.userUtteranceRef = Emp /\ live'.modelUtteranceRef = Emp
              /\ Len(g) = Len(h) + nu + nm
              /\ SubSeq(g, 1, Len(h)) = h
              /\ u # Emp => g[Len(h) + 1].text = u /\ g[Len(h) + 1].source = "user"
              /\ m # Emp => g[Len(g)].text = m /\ g[Len(g)].source = "model"]_vars

\* A stopSession call has just returned after committing a user text and a
\* model text as they were buffered, white space included.
C6_Witness ==
    LET h == live.transcriptHistory IN
    /\ live.stopReturned > 0
    /\ Len(h) >= 2
    /\ h[Len(h) - 1].source = "user" /\ Head(h[Len(h) - 1].text) = " "
    /\ h[Len(h)].source = "model" /\ Head(h[Len(h)].text) = " "

\* C7: a message with the turn-complete marker appends, for the user buffer
\* and then for the model buffer, one Transcript holding the trimmed text if
\* that is non-empty and nothing otherwise, and leaves both buffers empty.
C7_TurnComplete ==
    [][\A s \in SessionIds, msg \in TextMessages :
          (msg.turnComplete /\ OnMessage(s, msg)) =>
              LET u == Trim(live.userUtteranceRef \o msg.inText)
                  m == Trim(live.modelUtteranceRef \o msg.outText)
                  h == live.transcriptHistory
                  g == live'.transcriptHistory
                  nu == IF u # Emp THEN 1 ELSE 0
                  nm == IF m # Emp THEN 1 ELSE 0
              IN  /\ live'.userUtteranceRef = Emp /\ live'.modelUtteranceRef = Emp
                  /\ Len(g) = Len(h) + nu + nm
                  /\ SubSeq(g, 1, Len(h)) = h
                  /\ u # Emp => g[Len(h) + 1].text = u /\ g[Len(h) + 1].source = "user"
                  /\ m # Emp => g[Len(g)].text = m /\ g[Len(g)].source = "model"]_vars

\* The first session is open and was never stopped, and a turn-complete
\* message committed a model text alone.
C7_Witness ==
    /\ live.chan[1] = "open" /\ live.startPc[2] = "none"
    /\ StopsInFlight(live) = 0
    /\ live.messages >= 1
    /\ Len(live.transcriptHistory) = 1
    /\ live.transcriptHistory[1].source = "model"
    /\ live.transcriptHistory[1].text = <<"a">>
    /\ live.userUtteranceRef = Emp /\ live.modelUtteranceRef = Emp

IdsIncreasing(h) ==
    /\ \A i \in 1..Len(h) : h[i].id[1] = "t_"
    /\ \A i, j \in 1..Len(h) : i < j => h[i].id[2] < h[j].id[2]

C9_StateMachine ==
    [][/\ (\E s \in SessionIds : live.startPc[s] = "none" /\ live'.startPc[s] = "mic") =>
              live'.isConnecting
       /\ (~live.isConnected /\ live'.isConnected) =>
              /\ \E s \in SessionIds :
                    live.chan[s] = "connecting" /\ live'.chan[s] # "connecting"
              /\ live'.scriptProcessorRef # 0 /\ live'.sourceNodeRef # 0
       /\ ~(live'.isConnecting /\ live'.isConnected)
       /\ live'.stopReturned > 0 => (~live'.isConnecting /\ ~live'.isConnected)
       /\ (~live.isConnecting /\ ~live.isConnected /\ ~StartStep) =>
              (~live'.isConnecting /\ ~live'.isConnected)]_vars

\* C10: a channel error records the error message; and once a channel has
\* been closed, a stopSession call that returns with no other call in flight
\* leaves the state Ended, the session handle null, the microphone stopped
\* and released, the capture nodes disconnected and the session scheduler's
\* active set empty.
C10_ErrorTeardown ==
    [][/\ (\E s \in SessionIds : OnError(s)) => live'.error = "live"
       /\ (/\ \E s \in SessionIds : live'.chan[s] = "closed"
           /\ live'.stopReturned > 0
           /\ StopsInFlight(live') = 0) =>
              /\ ~live'.isConnecting /\ ~live'.isConnected
              /\ live'.sessionPromiseRef = 0
              /\ live'.mediaStreamRef = 0 /\ live'.heldStreams = {}
              /\ live'.scriptProcessorRef = 0 /\ live'.sourceNodeRef = 0
              /\ live'.audioSourcesRef = {}]_vars


\* The latest startSession call, 0 before the first.
LastStart == NextStart - 1

\* The catch block of the s-th startSession call runs in this step.
StartFailsStep(s) == live.startPc[s] # "failed" /\ live'.startPc[s] = "failed"

\* C11: when a startSession call fails (the output context, getUserMedia, the
\* input context or the creation of the channel), the error message of the
\* failed start is recorded and Connecting is left in that step; the failed
\* call never has a channel; and when the stopSession calls have all returned
\* with the failed call still the latest start, the state is neither
\* Connecting nor Connected, the microphone stream the call acquired is
\* stopped, the input context it made is closed and the output context is
\* closed.
C11_StartFailureFatal ==
    [][\A s \in SessionIds :
          /\ StartFailsStep(s) => live'.error = "start" /\ ~live'.isConnecting
          /\ live'.startPc[s] = "failed" => live'.chan[s] = "none"
          /\ (/\ live'.startPc[s] = "failed" /\ s = NextStart' - 1
              /\ live'.stopReturned > 0
              /\ StopsInFlight(live') = 0) =>
                 /\ ~live'.isConnecting /\ ~live'.isConnected
                 /\ s \notin live'.heldStreams
                 /\ live'.mediaStreamRef # s
                 /\ live'.inputAudioContextRef = s => live'.inputState = "closed"
                 /\ live'.outputState \in {"none", "closed"}]_vars

\* A startSession call failed after it had acquired the microphone and made
\* the input context, and the teardown its catch block started has returned.
C11_Witness ==
    /\ LastStart >= 1
    /\ live.startPc[LastStart] = "failed"
    /\ live.inputAudioContextRef = LastStart
    /\ live.stopReturned > 0
    /\ StopsInFlight(live) = 0

-----------------------------------------------------------------------------
(***************************************************************************)
(* Properties of the handling of inbound messages.                         *)
(***************************************************************************)
\* The transcript state: both buffers, the history, the id counter.
TranscriptState(l) ==
    <<l.userUtteranceRef, l.modelUtteranceRef, l.transcriptHistory,
      l.transcriptIdCounter>>

\* C12: when onmessage handles the interruption signal of a message, at once
\* for a message without audio and after playAudio has returned for a message
\* with audio, the session scheduler's active set is empty and its offset is
\* 0 afterwards; and the transcript state after the step is the one before
\* it, for a message that carries nothing but the signal and for the step in
\* which playAudio returns.
C12_InterruptionFrame ==
    [][/\ \A m \in ContentMessages :
             (m.interrupted /\ ~m.audio /\ OnMessage(1, m)) =>
                 /\ live'.audioSourcesRef = {} /\ live'.nextStartTimeRef = 0
                 /\ (m.inText = Emp /\ m.outText = Emp /\ ~m.turnComplete) =>
                        TranscriptState(live') = TranscriptState(live)
       /\ \A p \in live.decoding, d \in 1..MaxDuration :
             (p.interrupted /\ LiveDecodeReturns(p, d, "buffer")) =>
                 /\ live'.audioSourcesRef = {} /\ live'.nextStartTimeRef = 0
                 /\ TranscriptState(live') = TranscriptState(live)]_vars

\* After a Transcript was committed, text was buffered and a source was
\* started, an interruption signal has emptied the active set: the clock has
\* not advanced, so the source did not play to its end.
C12_Witness ==
    /\ live.audioSeq >= 1 /\ live.outputClock = 0
    /\ live.audioSourcesRef = {} /\ live.nextStartTimeRef = 0
    /\ live.decoding = {}
    /\ live.transcriptHistory # <<>>
    /\ live.modelUtteranceRef # Emp

\* onmessage is invoked for a new message in this step.
MessageStep == live'.messages = live.messages + 1

\* C13: no message is taken up while the playAudio call of an earlier
\* message is suspended at its decode; the sources in the active set were
\* started in the order in which their messages arrived; and once the
\* interruption signal of a message has been handled, no source of an earlier
\* message is in the active set.
C13_ArrivalOrder ==
    [][/\ MessageStep => live.decoding = {}
       /\ \A a, b \in live'.audioSourcesRef : a.seq < b.seq => a.msg < b.msg
       /\ \A a \in live'.audioSourcesRef : a.msg >= live'.lastInterrupt]_vars

-----------------------------------------------------------------------------
(***************************************************************************)
(* Properties of the read-aloud pipeline's failures and status.            *)
(***************************************************************************)
\* C14: when the synthesis request of a run returns no audio (getTextToSpeech
\* returns null for a failed request and for an empty result), within that
\* step the run surfaces one failure notice and returns, it issues no
\* further request then or later, and the active set is empty, the offset 0,
\* the status idle and the resume index cleared.
C14_SynthesisFailureAborts ==
    [][\A r \in RunIds :
          /\ SynthReturns(r, FALSE) =>
                 /\ ttsAlerts' = ttsAlerts + 1
                 /\ ttsRuns'[r].pc = "done" /\ ttsRuns'[r].alerted = 1
                 /\ ~RunRequests(r)
                 /\ ttsAudioSourcesRef' = {} /\ nextTtsStartTimeRef' = 0
                 /\ ttsStatus' = "idle" /\ activeSentenceIndex' = NoSentence
          /\ ttsRuns[r].pc = "done" => ttsRuns'[r] = ttsRuns[r]]_vars

\* The first run enqueued its first chunk, the request for its second chunk
\* returned no audio, and the run surfaced its notice and stopped the source.
C14_Witness ==
    /\ ttsRuns[1].pc = "done" /\ ttsRuns[1].failure = "synthesis"
    /\ ttsRuns[1].alerted = 1
    /\ ttsLast = <<1, 1>> /\ ttsSeq = 1
    /\ ttsStopped = 1
    /\ ttsAudioSourcesRef = {}

\* The number of alert() calls of the returned runs.
RECURSIVE AlertsOf(_)
AlertsOf(R) ==
    IF R = {} THEN 0
    ELSE LET r == CHOOSE x \in R : TRUE
         IN  ttsRuns[r].alerted + AlertsOf(R \ {r})

\* C15: a returned run that was cancelled and to which no synthesis request
\* returned an empty result has surfaced no failure notice, and a returned
\* run that failed has surfaced exactly one.
C15_NoticeOnlyOnFailure ==
    \A r \in RunIds :
        ttsRuns[r].pc = "done" =>
            /\ (ttsRuns[r].wasCancelled /\ ttsRuns[r].failure # "synthesis") =>
                   ttsRuns[r].alerted = 0
            /\ ttsRuns[r].failure # "none" => ttsRuns[r].alerted = 1

\* C15 amended: a returned run has surfaced exactly one failure notice when a
\* synthesis request returned an empty result to it or an enqueue of its
\* audio threw, cancelled or not, and none otherwise; so a cancelled run all
\* of whose synthesis results were non-empty and decoded surfaces none.  No
\* notice is surfaced by anything but a returning run.
C15_NoticeIffFailed ==
    /\ \A r \in RunIds :
          ttsRuns[r].pc = "done" =>
              ttsRuns[r].alerted = IF ttsRuns[r].failure # "none" THEN 1 ELSE 0
    /\ ttsAlerts = AlertsOf(RunIds)

\* A run that was cancelled while in flight has returned without a notice,
\* and a run that failed has returned with one.
C15_Witness ==
    \E r, q \in RunIds :
        /\ ttsRuns[r].pc = "done" /\ ttsRuns[r].wasCancelled
        /\ ttsRuns[r].failure = "none" /\ ttsRuns[r].alerted = 0
        /\ ttsRuns[q].pc = "done" /\ ttsRuns[q].failure # "none"
        /\ ttsAlerts = 1

\* A handleReadAloud invocation enters its loop in this step.
RunStarts == \E r \in RunIds : ttsRuns[r].pc = "none" /\ ttsRuns'[r].pc # "none"

\* A run takes its first audio in this step.
FirstAudio ==
    \E r \in RunIds :
        ~ttsRuns[r].firstChunkProcessed /\ ttsRuns'[r].firstChunkProcessed

\* C16: the status changes only from idle to fetching, in a step in which a
\* run starts, from fetching to playing, in a step in which a run takes its
\* first audio, and from any value to idle; so never from idle to playing.
C16_StatusTransitions ==
    [][ttsStatus' # ttsStatus =>
          \/ ttsStatus' = "idle"
          \/ ttsStatus = "idle" /\ ttsStatus' = "fetching" /\ RunStarts
          \/ ttsStatus = "fetching" /\ ttsStatus' = "playing" /\ FirstAudio]_vars

-----------------------------------------------------------------------------
(***************************************************************************)
(* Properties of chunkText.                                                *)
(***************************************************************************)
\* C17: every chunk chunkText returns, for any text and any maxLength >= 1,
\* is at most maxLength long.
C17_ChunkSizeBound ==
    chunker.called =>
        \A i \in 1..Len(chunker.chunks) : Len(chunker.chunks[i]) <= chunker.maxLength

\* A text of two sentences that fit a chunk together only without the second
\* was chunked, and a single sentence longer than the limit was cut in pieces.
C17_Witness ==
    /\ chunker.called
    /\ Len(chunker.text) > chunker.maxLength
    /\ Len(chunker.chunks) >= 2
    /\ \E i \in 1..Len(chunker.chunks) : Len(chunker.chunks[i]) = chunker.maxLength
    /\ \E i \in 1..Len(chunker.chunks) : Len(chunker.chunks[i]) < chunker.maxLength

\* The text has a character that is no white space.
NotAllWhiteSpace(text) == Trim(text) # <<>>

\* C18: for a text that is not all white space and not longer than
\* maxLength, chunkText returns exactly one chunk, and it is the trimmed text.
C18_ShortTextTrimmed ==
    (chunker.called /\ NotAllWhiteSpace(chunker.text)
         /\ Len(chunker.text) <= chunker.maxLength) =>
        chunker.chunks = <<Trim(chunker.text)>>

\* C18 amended: for a text that is not all white space and not longer than
\* maxLength, chunkText returns exactly one chunk, and it is the text as it
\* was passed, its leading and trailing white space included.
C18_ShortTextOneChunk ==
    (chunker.called /\ NotAllWhiteSpace(chunker.text)
         /\ Len(chunker.text) <= chunker.maxLength) =>
        chunker.chunks = <<chunker.text>>

\* A short text of two sentences that begins with white space came back as
\* one chunk.
C18_Witness ==
    /\ chunker.called
    /\ Len(chunker.text) <= chunker.maxLength
    /\ Len(Sentences(chunker.text, 1)) >= 2
    /\ Head(chunker.text) \in WhiteSpace
    /\ Len(chunker.chunks) = 1

-----------------------------------------------------------------------------
(***************************************************************************)
(* Properties of tool calls and of the capture teardown.                   *)
(***************************************************************************)
\* The function call is named addToScratchpad and carries a content argument.
CarriesContent(fc) == fc.name = "addToScratchpad" /\ fc.content # "undefined"

\* C19: when a message with function calls is handled, the scratchpad
\* callback is invoked once for every call named addToScratchpad that carries
\* a content argument, with that content and in the order of the calls; one
\* tool response with the id of each such call is sent on the channel of the
\* message; and every callback precedes the response with its id.
C19_ToolCallAcknowledged ==
    [][\A m \in ToolMessages :
          OnMessage(1, m) =>
              LET wanted == SelectSeq(m.toolCalls, CarriesContent)
                  log == live'.toolLog
                  callbacks == SelectSeq(log, LAMBDA e : e.event = "callback")
                  acks == SelectSeq(log, LAMBDA e : e.event = "ack")
              IN  /\ Len(callbacks) = Len(wanted)
                  /\ \A i \in 1..Len(wanted) :
                        /\ callbacks[i].id = wanted[i].id
                        /\ callbacks[i].content = wanted[i].content
                  /\ Len(acks) = Len(wanted)
                  /\ \A i \in 1..Len(wanted) :
                        acks[i].id = wanted[i].id /\ acks[i].session = 1
                  /\ \A j, k \in 1..Len(log) :
                        (log[j].event = "ack" /\ log[k].event = "callback"
                             /\ log[j].id = log[k].id) => k < j]_vars

\* C20: in every teardown the capture processor is disconnected before the
\* tracks of the microphone stream are stopped; and a teardown made while no
\* start has completed its setup (capture never started) disconnects nothing.
C20_CaptureTeardownOrder ==
    [][LET log == live'.teardownLog IN
       /\ \A j, k \in 1..Len(log) :
             (log[j] = "disconnectProcessor" /\ log[k] = "stopTracks") => j < k
       /\ (\A s \in DOMAIN live.startPc : live.startPc[s] # "done") =>
              \A j \in 1..Len(log) : log[j] = "stopTracks"]_vars

\* The offsets in the text at which the given consecutive parts of it end.
EndsOf(parts) == {Len(Join(SubSeq(parts, 1, i))) : i \in 1..Len(parts)}

\* The offsets at which chunkText cut the text.
Cuts == {0} \cup EndsOf(chunker.pushed)

\* C29: chunkText cuts inside no sentence that is at most maxLength long; it
\* cuts between two such sentences only when the chunk that ends there and
\* the sentence after it are longer than maxLength together; and a sentence
\* longer than maxLength is cut off from what precedes it and cut every
\* maxLength characters from its start, and at its end.
C29_GreedySentences ==
    chunker.called =>
        LET ss == Sentences(chunker.text, 1)
            max == chunker.maxLength
            from(k) == Len(Join(SubSeq(ss, 1, k - 1)))
            to(k) == Len(Join(SubSeq(ss, 1, k)))
        IN  \A k \in 1..Len(ss) :
               IF Len(ss[k]) <= max
               THEN /\ \A c \in Cuts : ~(from(k) < c /\ c < to(k))
                    /\ (k < Len(ss) /\ Len(ss[k + 1]) <= max /\ to(k) \in Cuts) =>
                           \E b \in Cuts :
                              /\ b < to(k)
                              /\ \A c \in Cuts : ~(b < c /\ c < to(k))
                              /\ (to(k) - b) + Len(ss[k + 1]) > max
               ELSE {c \in Cuts : from(k) <= c /\ c <= to(k)} =
                        {c \in from(k)..to(k) :
                            c = to(k) \/ (c - from(k)) % max = 0}

\* A text was chunked in which two short sentences share a chunk and a cut
\* lies between two short sentences.
C29_Witness ==
    /\ chunker.called
    /\ LET ss == Sentences(chunker.text, 1)
           max == chunker.maxLength
           to(k) == Len(Join(SubSeq(ss, 1, k)))
           short(k) == Len(ss[k]) <= max
       IN  /\ \E k \in 1..(Len(ss) - 1) :
                 short(k) /\ short(k + 1) /\ to(k) \notin Cuts
           /\ \E k \in 1..(Len(ss) - 1) :
                 short(k) /\ short(k + 1) /\ to(k) \in Cuts

\* A sentence longer than maxLength that follows a short one was cut into
\* full pieces and a shorter last one.
LongSentenceWitness ==
    /\ chunker.called
    /\ LET ss == Sentences(chunker.text, 1)
           max == chunker.maxLength
       IN  \E k \in 2..Len(ss) :
              /\ Len(ss[k - 1]) <= max
              /\ Len(ss[k]) > max /\ Len(ss[k]) % max # 0

\* The characters of t that are no white space, in order.
NonWhite(t) == SelectSeq(t, LAMBDA ch : ch \notin WhiteSpace)

\* C30: no chunk chunkText returns is empty or white space only; the pieces
\* it pushed make up the text when joined in order, the chunks returned are
\* those of them that are not white space only, in order, and so the
\* characters of the chunks that are no white space are those of the text,
\* none dropped, doubled or out of order.
C30_NoContentLost ==
    chunker.called =>
        /\ \A i \in 1..Len(chunker.chunks) : Trim(chunker.chunks[i]) # <<>>
        /\ Join(chunker.pushed) = chunker.text
        /\ chunker.chunks = SelectSeq(chunker.pushed, LAMBDA c : NonWhite(c) # <<>>)
        /\ NonWhite(Join(chunker.chunks)) = NonWhite(chunker.text)

\* A text was chunked of which a piece of white space was left out and two
\* chunks were returned.
C30_Witness ==
    /\ chunker.called
    /\ Len(chunker.chunks) >= 2
    /\ Len(chunker.pushed) > Len(chunker.chunks)
    /\ Join(chunker.chunks) # chunker.text

-----------------------------------------------------------------------------
(***************************************************************************)
(* Properties of the text resolution, the schedulers' enqueue and cancel.  *)
(***************************************************************************)
\* The context text from sentence sIndex of rendered paragraph pIndex to its
\* end.
TextFrom(contextText, pIndex, sIndex) ==
    LET paras == SplitLines(contextText, 1)
        q == CHOOSE i \in 1..Len(paras) :
                 /\ Trim(paras[i]) # <<>>
                 /\ Cardinality({k \in 1..(i - 1) : Trim(paras[k]) # <<>>}) = pIndex
        ss == Sentences(paras[q], 1)
    IN  Join(SubSeq(ss, sIndex + 1, Len(ss)))
            \o Join([k \in 1..(Len(paras) - q) |-> <<"\n">> \o paras[q + k]])

\* C21: a click on the read-aloud button while nothing is read resolves the
\* text to the selection when a selection with text in it is active, else to
\* the context from the clicked sentence to its end when a resume index is
\* set, else to the whole context; and when the resolved text is empty the
\* status, the cancellation flag and the scheduler are left as they were.
C21_TextResolution ==
    [][reader'.called =>
          LET r == reader'
              selected == ~r.selection.isCollapsed /\ Trim(r.selection.text) # <<>>
          IN  /\ selected => r.textToRead = r.selection.text
              /\ (~selected /\ r.clicked # <<>>) =>
                     r.textToRead = TextFrom(r.contextText, r.clicked[1], r.clicked[2])
              /\ (~selected /\ r.clicked = <<>>) => r.textToRead = r.contextText
              /\ r.textToRead = <<>> =>
                     UNCHANGED <<ttsStatus, isCancelledRef, nextTtsStartTimeRef,
                                 ttsAudioSourcesRef>>]_vars

\* The read-aloud half of C22: a source started in this step is scheduled at
\* the larger of the offset and the clock, and the offset moves to its end.
EnqueueAtClockTts ==
    \A src \in ttsAudioSourcesRef' \ ttsAudioSourcesRef :
        /\ src.start = Max(nextTtsStartTimeRef, ttsClock)
        /\ nextTtsStartTimeRef' = src.start + src.duration

\* The session half of C22.
EnqueueAtClockLive ==
    \A src \in live'.audioSourcesRef \ live.audioSourcesRef :
        /\ src.start = Max(live.nextStartTimeRef, live.outputClock)
        /\ live'.nextStartTimeRef = src.start + src.duration

\* C22: on either scheduler a source is scheduled, in the step that starts
\* it, at the larger of the scheduler's offset and the clock read in that
\* step, so never before the clock, and the offset afterwards is that start
\* plus the buffer's duration.
C22_EnqueueAtClock == [][EnqueueAtClockTts /\ EnqueueAtClockLive]_vars

\* C23: right after a step in which stopTtsPlayback ran, the cancellation
\* flag is set, the read-aloud scheduler's active set is empty, its offset is
\* 0, the status is idle and the resume index is cleared; right after a step
\* in which stopAllPlayback ran, the session scheduler's active set is empty
\* and its offset is 0.
C23_CancelPostState ==
    /\ ttsStopRan =>
           /\ isCancelledRef
           /\ ttsAudioSourcesRef = {}
           /\ nextTtsStartTimeRef = 0
           /\ ttsStatus = "idle"
           /\ activeSentenceIndex = NoSentence
    /\ live.stopAllRan =>
           /\ live.audioSourcesRef = {}
           /\ live.nextStartTimeRef = 0

\* stopTtsPlayback has just stopped a playing source of a run in flight.
C23_Witness ==
    ttsStopRan /\ ttsStopped > 0 /\ \E r \in RunIds : ttsRuns[r].cancelSeen

\* stopAllPlayback has just run for an interruption after a source of the
\* session was started.
StopAllWitness ==
    live.stopAllRan /\ live.audioSeq > 0 /\ live.lastInterrupt > 0

-----------------------------------------------------------------------------
(***************************************************************************)
(* Properties of the committed Transcripts and of the session's resources. *)
(***************************************************************************)
\* The positions of the history after this step that hold a Transcript the
\* history before it did not hold there.
Appended ==
    {i \in 1..Len(live'.transcriptHistory) :
        i > Len(live.transcriptHistory)
            \/ live'.transcriptHistory[i] # live.transcriptHistory[i]}

\* C24: every Transcript appended to the history, by a turn-complete marker
\* or by the final commit of stopSession, has source user or model and a text
\* that is non-empty, has no white space at either end, and is the trimmed
\* content of the buffer of its source (with the text the step's message
\* added to it).
C24_CommittedTextTrimmed ==
    [][\A i \in Appended :
          LET tr == live'.transcriptHistory[i]
              buffer == IF tr.source = "user" THEN live.userUtteranceRef
                        ELSE live.modelUtteranceRef
          IN  /\ tr.source \in {"user", "model"}
              /\ tr.text # Emp
              /\ tr.text = Trim(tr.text)
              /\ \E x \in Texts : tr.text = Trim(buffer \o x)]_vars

\* Run r is in progress: it waits for a synthesis or a decode and no
\* cancellation has reached it.
InProgress(r) == InFlight(ttsRuns[r]) /\ ~ttsRuns[r].cancelSeen

\* C25: whenever the read-aloud status is idle, no run is in progress and
\* the read-aloud scheduler's active set is empty.
C25_IdleMeansNothingRuns ==
    ttsStatus = "idle" =>
        /\ \A r \in RunIds : ~InProgress(r)
        /\ ttsAudioSourcesRef = {}

\* C26: the step that delivers a close or an error event of the channel of
\* an earlier session, after a later startSession call has begun, leaves the
\* later session as it is: its channel is not closed, its microphone stream
\* is not stopped, the output context is not closed and the state does not
\* leave Connecting or Connected.
C26_StaleEventHarmless ==
    [][\A s, t \in SessionIds :
          (/\ s < t
           /\ live.startPc[t] # "none"
           /\ OnClose(s) \/ OnError(s)) =>
              /\ live.chan[t] \in {"connecting", "open"} =>
                     live'.chan[t] = live.chan[t]
              /\ t \in live.heldStreams => t \in live'.heldStreams
              /\ live.outputState = "running" => live'.outputState = "running"
              /\ live.isConnecting => live'.isConnecting
              /\ live.isConnected => live'.isConnected]_vars

\* C27: whenever the session is Connected there is an output context and it
\* is not closed.
C27_ConnectedOutputOpen ==
    live.isConnected =>
        live.outputAudioContextRef # 0 /\ live.outputState # "closed"

\* C28: once a stopSession call has returned, with none in flight and no
\* start since, the session scheduler's active set is empty and its offset is
\* 0, whatever decode was pending when the call ran; and every startSession
\* call leaves the active set empty and the offset 0.
C28_StoppedSchedulerEmpty ==
    [][/\ (live'.stopRow \in {"returned", "repeated"} /\ StopsInFlight(live') = 0) =>
              live'.audioSourcesRef = {} /\ live'.nextStartTimeRef = 0
       /\ StartStep =>
              live'.audioSourcesRef = {} /\ live'.nextStartTimeRef = 0]_vars

-----------------------------------------------------------------------------
(***************************************************************************)
(* Properties of the order within a message, of the outbound frames, of    *)
(* the termination of a run, of the resume index and of the encoding.      *)
(***************************************************************************)
\* The texts of the Transcripts the history after this step holds beyond the
\* history before it, with their sources.
Committed ==
    LET h == live.transcriptHistory
        g == live'.transcriptHistory
    IN  [i \in 1..(Len(g) - Len(h)) |->
            <<g[Len(h) + i].source, g[Len(h) + i].text>>]

\* The messages that carry partial text and the turn-complete marker, with
\* or without audio and an interruption signal.
TextAndMarker ==
    {c \in ContentMessages :
        c.turnComplete /\ (c.inText # Emp \/ c.outText # Emp)}

\* C31: the partial text a message carries is in the buffers before the
\* turn-complete marker of the same message commits them, so it is committed
\* with them, whatever else the message carries; and the audio of a message
\* that carries an interruption signal too is not in the active set once its
\* playAudio call has returned, the signal being handled after it.
C31_OrderWithinMessage ==
    [][/\ (MessageStep /\ live'.toolLog = <<>>) =>
             \A m \in TextAndMarker :
                 LET u == Trim(live.userUtteranceRef \o m.inText)
                     o == Trim(live.modelUtteranceRef \o m.outText)
                 IN  \/ /\ live'.userUtteranceRef = Emp
                        /\ live'.modelUtteranceRef = Emp
                        /\ Committed =
                               (IF u # Emp THEN <<<<"user", u>>>> ELSE <<>>)
                               \o (IF o # Emp THEN <<<<"model", o>>>> ELSE <<>>)
                     \/ ~OnMessage(1, m)
       /\ \A p \in live.decoding :
             p.interrupted => \A src \in live'.audioSourcesRef : src.msg # p.msg]_vars

\* The one message so far carried text, the turn-complete marker, audio and
\* an interruption signal: its text is committed, its audio was started and
\* is out of the active set again.
C31_Witness ==
    /\ live.messages = 1
    /\ Len(live.transcriptHistory) = 2
    /\ live.audioSeq = 1
    /\ live.lastInterrupt = 1
    /\ live.decoding = {}
    /\ live.audioSourcesRef = {}

\* onaudioprocess runs in this step.
CaptureStep ==
    \E level \in {0, 1}, outcome \in SendOutcomes : OnAudioProcess(level, outcome)

\* The frames that wait for session promise s.
Waiting(l, s) == SelectSeq(l.pendingFrames, LAMBDA f : f.chan = s)

TtsPlayTime ==
    /\ ttsClock >= MaxClock
    /\ \E s \in ttsAudioSourcesRef : ttsClock < s.start + s.duration
    /\ ttsClock' = ttsClock + 1
    /\ ttsStopRan' = FALSE
    /\ UNCHANGED <<mode, ttsStatus, activeSentenceIndex, isCancelledRef,
                   nextTtsStartTimeRef, ttsAudioSourcesRef, ttsRuns, ttsStopped,
                   ttsSeq, ttsLast, ttsAlerts>>

TtsRest == UNCHANGED <<liveVars, callVars>>

\* The state after construction in a window with or without an AudioContext
\* constructor.
InitAnyWindow ==
    /\ mode \in AppModes /\ LiveInit /\ ChunkerIdle /\ ReaderIdle /\ EncoderIdle
    /\ ttsStatus = "idle"
    /\ activeSentenceIndex = NoSentence
    /\ isCancelledRef = FALSE
    /\ nextTtsStartTimeRef = 0
    /\ ttsAudioSourcesRef = {}
    /\ ttsClock \in {0, NoContext}
    /\ ttsRuns = [r \in RunIds |-> NoRun]
    /\ ttsStopped = 0
    /\ ttsSeq = 0
    /\ ttsLast = <<0, 0>>
    /\ ttsAlerts = 0
    /\ ttsStopRan = FALSE

\* Every synthesis request and every decode returns, time passes, every
\* source that has played to its end and every source that was stopped gets
\* its 'ended' event.  Nothing is assumed of the user's clicks.
TtsFairness ==
    /\ \A r \in RunIds :
          WF_vars(TtsRest /\ \E audioData \in BOOLEAN : SynthReturns(r, audioData))
    /\ \A r \in RunIds :
          WF_vars(TtsRest /\ \E d \in 1..MaxDuration, o \in DecodeOutcomes :
                                DecodeReturns(r, d, o))
    /\ WF_vars(TtsRest /\ \E s \in ttsAudioSourcesRef : TtsSourceEnded(s))
    /\ WF_vars(TtsRest /\ TtsStoppedSourceEnded)
    /\ WF_vars(TtsRest /\ TtsClockTick)
    /\ WF_vars(TtsRest /\ TtsPlayTime)

\* The read-aloud pipeline with its requests returning and its sources
\* playing to their ends.
SpecTtsFair ==
    /\ InitAnyWindow
    /\ [][(TtsNext \/ TtsPlayTime) /\ TtsRest]_vars
    /\ TtsFairness

\* C33: every handleReadAloud invocation that entered its loop is followed
\* by a state in which it has returned, the status is idle and the active
\* set of the TTS scheduler is empty.
C33_RunEndsIdle ==
    \A r \in RunIds :
        (ttsRuns[r].pc # "none") ~>
            (/\ ttsRuns[r].pc = "done"
             /\ ttsStatus = "idle"
             /\ ttsAudioSourcesRef = {})

\* The index, in the list of sentences handleReadAloud slices, of sentence
\* sIndex of rendered paragraph pIndex (all counted from 0).
IndexInSentences(contextText, pIndex, sIndex) ==
    LET paras == SplitLines(contextText, 1)
        q == CHOOSE i \in 1..Len(paras) :
                 /\ Trim(paras[i]) # <<>>
                 /\ Cardinality({k \in 1..(i - 1) : Trim(paras[k]) # <<>>}) = pIndex
    IN  Len(FlatSentences(SubSeq(paras, 1, q - 1))) + sIndex

\* C34: a click on a sentence while the status is idle stores the index that
\* sentence has in the list of sentences handleReadAloud slices, or clears
\* the index when that sentence is the selected one; a click while the status
\* is not idle runs stopTtsPlayback and leaves no index set.
C34_ResumeIndex ==
    [][\A pIndex, sIndex \in 0..(MaxContext - 1) :
          SentenceClick(pIndex, sIndex) =>
              IF ttsStatus # "idle"
              THEN ttsStopRan' /\ activeSentenceIndex' = NoSentence
              ELSE IF reader.clicked = <<pIndex, sIndex>>
              THEN activeSentenceIndex' = NoSentence
              ELSE activeSentenceIndex' =
                       IndexInSentences(reader.contextText, pIndex, sIndex)]_vars

\* C35: every sample of a frame, all of them in [-1, 1], is encoded to the
\* sample scaled by 32768 with its fraction dropped; the value lies in
\* -32768..32767 and its sign is not the opposite of the sample's.
C35_EncodeNoWrap ==
    encoder.called =>
        \A i \in 1..Len(encoder.frame) :
            LET n == encoder.frame[i]
                v == encoder.data[i]
            IN  /\ v = Truncate(n * Scale, Grid)
                /\ v \in (0 - Scale)..(Scale - 1)
                /\ ~(n > 0 /\ v < 0)
                /\ ~(n < 0 /\ v > 0)

=============================================================================
